---- MODULE Spec2Model ----
(***************************************************************************)
(* A model of bitcrawler-proto: the Kademlia routing table                 *)
(* (kademlia/routing_table.rs, with the crawler's BittorrentNodeId as the   *)
(* NodeId) and the bencode codec (bencode/{common,encode,decode}.rs).       *)
(*                                                                         *)
(* Bytes are their numeric values (ASCII codes where the code tests a      *)
(* character).  Rust indices are 0-based; TLA+ sequences are 1-based, so   *)
(* input[c] of the code is input[c + 1] here.                              *)
(***************************************************************************)
EXTENDS Integers, Sequences, FiniteSets, TLC

VARIABLES
    buckets,    \* RoutingTable.buckets: a sequence of buckets, each a sequence of nodes
    local_id,   \* RoutingTable.local_id
    op,         \* the last call made on the table: "new", "insert" or "remove"
    arg,        \* the argument of that call (a node; for remove only its id counts)
    ret,        \* what that call returned
    pre,        \* RoutingTable.buckets as it was when that call began
    work,       \* the value trees built so far, not yet put into a container
    orig,       \* the value tree handed to the codec
    value,      \* the value tree as it is now (sort_keys works in place)
    stage,      \* where the codec run stands
    bytes,      \* the output of encode
    decoded,    \* the result of decode
    overflow_checks, \* the build's overflow-checks setting (on in debug, off in release)
    decode_cursor,  \* decode's cursor into its input
    decode_stack,   \* decode's stack of DecodeState frames
    decode_values   \* decode's values: the frames the loop run on 'e' has popped

vars == <<buckets, local_id, op, arg, ret, pre, work, orig, value, stage, bytes, decoded,
          overflow_checks, decode_cursor, decode_stack, decode_values>>

decVars == <<decode_cursor, decode_stack, decode_values>>

rtVars == <<buckets, local_id, op, arg, ret, pre>>
bcVars == <<work, orig, value, stage, bytes, decoded>>

(***************************************************************************)
(* Bounds of the model.                                                    *)
(***************************************************************************)
\* The last byte of a node ID ranges over 0..MaxByte (u8 in the code).
MaxByte == 1
\* RoutingTable.bucket_size, which RoutingTable::new sets to 20
\* (routing_table.rs:154); the model runs the same code with a smaller k.
BucketSize == 2
\* The value trees built for the codec have at most MaxNodes nodes in all.
MaxNodes == 4
\* The raw inputs handed to the decoders have at most MaxInput bytes.
MaxInput == 5
\* The width of usize in bits (64 on the crawler's targets); the model runs
\* the same arithmetic at a width the inputs above can overflow.
UsizeBits == 8
\* The bucket lists handed to the table's functions have at most MaxBuckets
\* buckets and MaxHeld nodes in all.
MaxBuckets == 3
MaxHeld == 4
\* The message dicts put together for the KRPC parsers have at most
\* MaxEntries entries (one more for announce_peer, which needs four).
MaxEntries == 3

(***************************************************************************)
(* Byte strings and their order.                                           *)
(***************************************************************************)
Min(a, b) == IF a <= b THEN a ELSE b

\* The sequences over S of at most n elements.
SeqsUpTo(S, n) == UNION {[1..k -> S] : k \in 0..n}

\* Ord for [u8] / Vec<u8> / [u8; N]: lexicographic, a proper prefix is smaller.
\* -1 is Ordering::Less, 0 is Equal, 1 is Greater.
RECURSIVE CmpFrom(_, _, _)
CmpFrom(a, b, i) ==
    IF i > Len(a) /\ i > Len(b) THEN 0
    ELSE IF i > Len(a) THEN -1
    ELSE IF i > Len(b) THEN 1
    ELSE IF a[i] < b[i] THEN -1
    ELSE IF a[i] > b[i] THEN 1
    ELSE CmpFrom(a, b, i + 1)

CmpBytes(a, b) == CmpFrom(a, b, 1)

(***************************************************************************)
(* Node IDs: BittorrentNodeId, a fixed-width byte array (20 bytes in the   *)
(* crawler; two bytes here, the first 0 or 1, the last 0..MaxByte).       *)
(***************************************************************************)
Ids == {0, 1} \X (0..MaxByte)

\* Opaque address lists of a node.
Addrs == {"addr1", "addr2"}

Nodes == [id : Ids, addresses : Addrs]

NoNode == [id |-> <<>>, addresses |-> "none"]

\* Xorable::cmp_distance for BittorrentNodeId: self.0.cmp(&other.0).
cmp_distance(self, other) == CmpBytes(self, other)

\* Xorable::bucket_index for BittorrentNodeId: the index of the first byte
\* that differs, or the length when none does.
RECURSIVE BucketIndexFrom(_, _, _)
BucketIndexFrom(self, other, i) ==
    IF i >= Len(self) THEN Len(self)
    ELSE IF self[i + 1] /= other[i + 1] THEN i
    ELSE BucketIndexFrom(self, other, i + 1)

bucket_index(self, other) == BucketIndexFrom(self, other, 0)

(***************************************************************************)
(* Bucket.                                                                 *)
(***************************************************************************)
\* Bucket::find: nodes.binary_search_by(|node| node.id.cmp(id)).
\* The result is [found, index]: Ok(index) or Err(index).
RECURSIVE BinarySearch(_, _, _, _)
BinarySearch(nodes, id, left, right) ==
    IF left >= right THEN [found |-> FALSE, index |-> left]
    ELSE LET mid == left + ((right - left) \div 2)
             c == CmpBytes(nodes[mid + 1].id, id)
         IN  IF c = -1 THEN BinarySearch(nodes, id, mid + 1, right)
             ELSE IF c = 1 THEN BinarySearch(nodes, id, left, mid)
             ELSE [found |-> TRUE, index |-> mid]

\* Bucket::find with the upper half cut one element short (right = mid - 1).
RECURSIVE BinarySearchOffByOne(_, _, _, _)
BinarySearchOffByOne(nodes, id, left, right) ==
    IF left >= right THEN [found |-> FALSE, index |-> left]
    ELSE LET mid == left + ((right - left) \div 2)
             c == CmpBytes(nodes[mid + 1].id, id)
         IN  IF c = -1 THEN BinarySearchOffByOne(nodes, id, mid + 1, right)
             ELSE IF c = 1 THEN BinarySearchOffByOne(nodes, id, left, mid - 1)
             ELSE [found |-> TRUE, index |-> mid]

BucketFindOffByOne(nodes, id) == BinarySearchOffByOne(nodes, id, 0, Len(nodes))

BucketFind(nodes, id) == BinarySearch(nodes, id, 0, Len(nodes))

\* Vec::insert(index, x) and Vec::remove(index), 0-based.
VecInsert(s, index, x) == SubSeq(s, 1, index) \o <<x>> \o SubSeq(s, index + 1, Len(s))
VecRemove(s, index) == SubSeq(s, 1, index) \o SubSeq(s, index + 2, Len(s))

\* Bucket::insert with the node put at the front instead of at the found index.
BucketInsertWrongPlace(nodes, node) ==
    LET f == BucketFind(nodes, node.id)
    IN  IF f.found THEN [nodes |-> nodes, ret |-> FALSE]
        ELSE [nodes |-> <<node>> \o nodes, ret |-> TRUE]

\* Bucket::insert without the check for a node already there.
BucketInsertAlways(nodes, node) ==
    LET f == BucketFind(nodes, node.id)
    IN  [nodes |-> VecInsert(nodes, f.index, node), ret |-> TRUE]

\* Bucket::insert: the bucket afterwards and the returned flag.
BucketInsert(nodes, node) ==
    LET f == BucketFind(nodes, node.id)
    IN  IF f.found THEN [nodes |-> nodes, ret |-> FALSE]
        ELSE [nodes |-> VecInsert(nodes, f.index, node), ret |-> TRUE]

\* Bucket::remove taking out the first node instead of the found one.
BucketRemoveFirst(nodes, id) ==
    LET f == BucketFind(nodes, id)
    IN  IF f.found THEN [nodes |-> VecRemove(nodes, 0), ret |-> nodes[1]]
        ELSE [nodes |-> nodes, ret |-> NoNode]

\* Bucket::remove: the bucket afterwards and the removed node (NoNode for None).
BucketRemove(nodes, id) ==
    LET f == BucketFind(nodes, id)
    IN  IF f.found THEN [nodes |-> VecRemove(nodes, f.index), ret |-> nodes[f.index + 1]]
        ELSE [nodes |-> nodes, ret |-> NoNode]

\* Bucket::contains.
BucketContains(nodes, id) == BucketFind(nodes, id).found

\* Bucket::range_contains with the operands of cmp_distance the other way
\* round: first <= id <= last.
RangeContainsBetween(nodes, id) ==
    /\ cmp_distance(nodes[1].id, id) /= 1
    /\ cmp_distance(nodes[Len(nodes)].id, id) /= -1

\* Bucket::range_contains with || for &&: id is not past both ends.
RangeContainsEitherEnd(nodes, id) ==
    \/ cmp_distance(id, nodes[1].id) /= 1
    \/ cmp_distance(id, nodes[Len(nodes)].id) /= -1

\* Bucket::range_contains (the bucket is not empty where the table calls it):
\* id.cmp_distance(first) != Greater && id.cmp_distance(last) != Less.
range_contains(nodes, id) ==
    /\ cmp_distance(id, nodes[1].id) /= 1
    /\ cmp_distance(id, nodes[Len(nodes)].id) /= -1

(***************************************************************************)
(* RoutingTable.  An Option<usize> is the index, or -1 for None.           *)
(***************************************************************************)
\* The loop of find_bucket_index taking a bucket only when it beats the
\* best so far (bindex > bucket_length).
RECURSIVE FindBucketLoopFirstBest(_, _, _, _, _)
FindBucketLoopFirstBest(bs, id, i, best_index, best_length) ==
    IF i >= Len(bs) THEN best_index
    ELSE LET bucket == bs[i + 1]
         IN  IF Len(bucket) > 0
             THEN LET lbindex == bucket_index(id, bucket[1].id)
                      rbindex == bucket_index(id, bucket[Len(bucket)].id)
                      bindex == Min(lbindex, rbindex)
                  IN  IF bindex > best_length
                      THEN FindBucketLoopFirstBest(bs, id, i + 1, i, bindex)
                      ELSE FindBucketLoopFirstBest(bs, id, i + 1, best_index, best_length)
             ELSE FindBucketLoopFirstBest(bs, id, i + 1, best_index, best_length)

\* The loop of find_bucket_index over the buckets from i on.
RECURSIVE FindBucketLoop(_, _, _, _, _)
FindBucketLoop(bs, id, i, best_index, best_length) ==
    IF i >= Len(bs) THEN best_index
    ELSE LET bucket == bs[i + 1]
         IN  IF Len(bucket) > 0
             THEN LET lbindex == bucket_index(id, bucket[1].id)
                      rbindex == bucket_index(id, bucket[Len(bucket)].id)
                      bindex == Min(lbindex, rbindex)
                  IN  IF bindex >= best_length
                      THEN FindBucketLoop(bs, id, i + 1, i, bindex)
                      ELSE FindBucketLoop(bs, id, i + 1, best_index, best_length)
             ELSE FindBucketLoop(bs, id, i + 1, best_index, best_length)

\* RoutingTable::find_bucket_index.
find_bucket_index(bs, id) ==
    IF Len(bs) = 0 THEN -1 ELSE FindBucketLoop(bs, id, 0, 0, 0)

\* The loop of split_bucket sending a node left only when its index is
\* greater than the split index (index > bucket_index).
RECURSIVE SplitLoopStrict(_, _, _, _, _, _)
SplitLoopStrict(nodes, i, first_id, split_index, left, right) ==
    IF i > Len(nodes) THEN <<left, right>>
    ELSE LET node == nodes[i]
             index == bucket_index(first_id, node.id)
         IN  IF index > split_index
             THEN SplitLoopStrict(nodes, i + 1, first_id, split_index,
                                  BucketInsert(left, node).nodes, right)
             ELSE SplitLoopStrict(nodes, i + 1, first_id, split_index,
                                  left, BucketInsert(right, node).nodes)

\* The loop of split_bucket: each node of the old bucket goes left or right.
RECURSIVE SplitLoop(_, _, _, _, _, _)
SplitLoop(nodes, i, first_id, split_index, left, right) ==
    IF i > Len(nodes) THEN <<left, right>>
    ELSE LET node == nodes[i]
             index == bucket_index(first_id, node.id)
         IN  IF index >= split_index
             THEN SplitLoop(nodes, i + 1, first_id, split_index,
                            BucketInsert(left, node).nodes, right)
             ELSE SplitLoop(nodes, i + 1, first_id, split_index,
                            left, BucketInsert(right, node).nodes)

\* RoutingTable::split_bucket: the bucket list afterwards.
split_bucket(bs, index, k) ==
    LET bucket == bs[index + 1]
        rest == VecRemove(bs, index)
    IN  IF Len(bucket) < k THEN Append(rest, bucket)
        ELSE LET first_id == bucket[1].id
                 last_id == bucket[Len(bucket)].id
                 split_index == bucket_index(first_id, last_id)
                 lr == SplitLoop(bucket, 1, first_id, split_index, <<>>, <<>>)
             IN  rest \o <<lr[1], lr[2]>>

\* RoutingTable::insert: the bucket list afterwards and the returned flag.
TableInsert(bs, local, k, node) ==
    LET bi == find_bucket_index(bs, node.id)
    IN  IF bi = -1 THEN [buckets |-> Append(bs, <<node>>), ret |-> TRUE]
        ELSE LET bucket == bs[bi + 1]
             IN  IF Len(bucket) >= k
                 THEN IF range_contains(bucket, local)
                      THEN LET grown == [bs EXCEPT ![bi + 1] = BucketInsert(bucket, node).nodes]
                           IN  [buckets |-> split_bucket(grown, find_bucket_index(grown, node.id), k),
                                ret |-> TRUE]
                      ELSE [buckets |-> bs, ret |-> FALSE]
                 ELSE LET r == BucketInsert(bucket, node)
                      IN  [buckets |-> [bs EXCEPT ![bi + 1] = r.nodes], ret |-> r.ret]

\* RoutingTable::remove without the removal of a bucket left empty.
TableRemoveKeepEmpty(bs, id) ==
    LET bi == find_bucket_index(bs, id)
    IN  IF bi = -1 THEN [buckets |-> bs, ret |-> NoNode]
        ELSE LET r == BucketRemove(bs[bi + 1], id)
             IN  [buckets |-> [bs EXCEPT ![bi + 1] = r.nodes], ret |-> r.ret]

\* RoutingTable::remove: the bucket list afterwards and the removed node.
TableRemove(bs, id) ==
    LET bi == find_bucket_index(bs, id)
    IN  IF bi = -1 THEN [buckets |-> bs, ret |-> NoNode]
        ELSE LET r == BucketRemove(bs[bi + 1], id)
             IN  [buckets |-> IF Len(r.nodes) = 0 THEN VecRemove(bs, bi)
                              ELSE [bs EXCEPT ![bi + 1] = r.nodes],
                  ret |-> r.ret]

\* RoutingTable::find_bucket: the bucket found (only called on a table with a bucket).
find_bucket(bs, id) == bs[find_bucket_index(bs, id) + 1]

(***************************************************************************)
(* Bencode values (bencode/common.rs): BencodeValue is a tagged tree; a    *)
(* Dict is a Vec of (key, value) pairs, in the order given.                *)
(***************************************************************************)
ByteString(s) == [t |-> "ByteString", v |-> s]
Integer(i) == [t |-> "Integer", v |-> i]
List(l) == [t |-> "List", v |-> l]
Dict(d) == [t |-> "Dict", v |-> d]

\* The payloads the model draws from: b"" and b"e:", the keys b"b" and b"ab",
\* the integers 0 and -12.
StrPayloads == {<<>>, <<101, 58>>}
KeyPayloads == {<<98>>, <<97, 98>>}
IntPayloads == {0, -12}

Leaves == {ByteString(s) : s \in StrPayloads} \cup {Integer(i) : i \in IntPayloads}

\* The number of nodes of a tree (a container is one node, each element or
\* entry value adds its own), and of a sequence of trees.
RECURSIVE NodeCount(_), NodeCountAll(_)
NodeCount(v) ==
    IF v.t = "List" THEN 1 + NodeCountAll(v.v)
    ELSE IF v.t = "Dict" THEN 1 + NodeCountAll([i \in 1..Len(v.v) |-> v.v[i][2]])
    ELSE 1
NodeCountAll(l) == IF l = <<>> THEN 0 ELSE NodeCount(l[1]) + NodeCountAll(Tail(l))

Reverse(s) == [i \in 1..Len(s) |-> s[Len(s) + 1 - i]]

\* slice::sort_by(|(a, _), (b, _)| a.cmp(b)) on dict entries: a stable sort.
RECURSIVE InsertByKey(_, _)
InsertByKey(sorted, e) ==
    IF sorted = <<>> THEN <<e>>
    ELSE IF CmpBytes(sorted[Len(sorted)][1], e[1]) /= 1 THEN Append(sorted, e)
    ELSE Append(InsertByKey(SubSeq(sorted, 1, Len(sorted) - 1), e), sorted[Len(sorted)])

RECURSIVE SortFrom(_, _, _)
SortFrom(d, i, sorted) ==
    IF i > Len(d) THEN sorted ELSE SortFrom(d, i + 1, InsertByKey(sorted, d[i]))

\* No sort at all.
NoSort(d) == d

SortByKey(d) == SortFrom(d, 1, <<>>)

\* sort_keys as its doc comment words it ("the keys of all dictionaries"):
\* every dict of the tree, also those inside lists.
RECURSIVE SortKeysEverywhere(_)
SortKeysEverywhere(v) ==
    IF v.t = "Dict"
    THEN LET d == SortByKey(v.v)
         IN  Dict([i \in 1..Len(d) |-> <<d[i][1], SortKeysEverywhere(d[i][2])>>])
    ELSE IF v.t = "List"
    THEN List([i \in 1..Len(v.v) |-> SortKeysEverywhere(v.v[i])])
    ELSE v

\* BencodeValue::sort_keys: the tree afterwards.
RECURSIVE sort_keys(_)
sort_keys(v) ==
    IF v.t = "Dict"
    THEN LET d == SortByKey(v.v)
         IN  Dict([i \in 1..Len(d) |-> <<d[i][1], sort_keys(d[i][2])>>])
    ELSE v

(***************************************************************************)
(* The encoder (bencode/encode.rs).                                        *)
(***************************************************************************)
\* usize::to_string / the digits of i128::to_string.
RECURSIVE Digits(_)
Digits(n) == IF n < 10 THEN <<48 + n>> ELSE Append(Digits(n \div 10), 48 + (n % 10))

\* i128::to_string.
IntToString(i) == IF i < 0 THEN <<45>> \o Digits(-i) ELSE Digits(i)

\* write_string: the bytes appended.
write_string(s) == Digits(Len(s)) \o <<58>> \o s

\* write_integer: the bytes appended.
write_integer(i) == <<105>> \o IntToString(i) \o <<101>>

\* The d.sort_by of encode.
SortForEncode(d) == SortByKey(d)

\* EncodingToken.
Token(k, v) == [k |-> k, v |-> v]

\* The dict_entries of encode: DictEntry(key), Value(value) for each entry.
RECURSIVE DictEntryTokens(_, _)
DictEntryTokens(d, i) ==
    IF i > Len(d) THEN <<>>
    ELSE <<Token("DictEntry", d[i][1]), Token("Value", d[i][2])>> \o DictEntryTokens(d, i + 1)

\* The while loop of encode: value_stack has its top at the end.
RECURSIVE EncodeLoop(_, _)
EncodeLoop(value_stack, token_stack) ==
    IF value_stack = <<>> THEN token_stack
    ELSE LET tok == value_stack[Len(value_stack)]
             rest == SubSeq(value_stack, 1, Len(value_stack) - 1)
         IN  IF tok.k = "Value" /\ tok.v.t = "ByteString"
             THEN EncodeLoop(rest, token_stack \o write_string(tok.v.v))
             ELSE IF tok.k = "Value" /\ tok.v.t = "Integer"
             THEN EncodeLoop(rest, token_stack \o write_integer(tok.v.v))
             ELSE IF tok.k = "Value" /\ tok.v.t = "List"
             THEN EncodeLoop(rest \o <<Token("ListEnd", <<>>)>>
                                  \o Reverse([i \in 1..Len(tok.v.v) |-> Token("Value", tok.v.v[i])])
                                  \o <<Token("ListStart", <<>>)>>,
                             token_stack)
             ELSE IF tok.k = "Value" /\ tok.v.t = "Dict"
             THEN EncodeLoop(rest \o <<Token("DictEnd", <<>>)>>
                                  \o Reverse(DictEntryTokens(SortForEncode(tok.v.v), 1))
                                  \o <<Token("DictStart", <<>>)>>,
                             token_stack)
             ELSE IF tok.k \in {"ListEnd", "DictEnd"}
             THEN EncodeLoop(rest, Append(token_stack, 101))
             ELSE IF tok.k = "DictEntry"
             THEN EncodeLoop(rest, token_stack \o write_string(tok.v))
             ELSE IF tok.k = "ListStart"
             THEN EncodeLoop(rest, Append(token_stack, 108))
             ELSE EncodeLoop(rest, Append(token_stack, 100))

\* encode.
encode(input) ==
    IF input.t = "ByteString" THEN write_string(input.v)
    ELSE IF input.t = "Integer" THEN write_integer(input.v)
    ELSE EncodeLoop(<<Token("Value", input)>>, <<>>)

(***************************************************************************)
(* The decoder (bencode/decode.rs).  A result is [ok, n, v, err]:          *)
(* Ok((n, v)), or Err(err); err "panic" stands for a panic.                *)
(***************************************************************************)
Ok(n, v) == [ok |-> TRUE, n |-> n, v |-> v, err |-> ""]
Err(e) == [ok |-> FALSE, n |-> 0, v |-> <<>>, err |-> e]

\* iter().position(|&c| c == b): the 0-based index of the first b, or -1.
RECURSIVE PositionFrom(_, _, _)
PositionFrom(input, b, i) ==
    IF i > Len(input) THEN -1
    ELSE IF input[i] = b THEN i - 1
    ELSE PositionFrom(input, b, i + 1)

Position(input, b) == PositionFrom(input, b, 1)

\* The length loop of decode_string over input[0..separator_index]: the
\* value, or -1 at a byte that is no digit.  value * 10 + digit is usize
\* arithmetic: past usize::MAX it panics under overflow checks (-2) and
\* wraps without them.
RECURSIVE ParseLength(_, _, _, _)
ParseLength(input, i, stop, val) ==
    IF i > stop THEN val
    ELSE IF input[i] < 48 \/ input[i] > 57 THEN -1
    ELSE LET next == val * 10 + (input[i] - 48)
         IN  IF next < 2 ^ UsizeBits THEN ParseLength(input, i + 1, stop, next)
             ELSE IF overflow_checks THEN -2
             ELSE ParseLength(input, i + 1, stop, next % (2 ^ UsizeBits))

\* decode_string returning separator_index + length as the bytes read, one
\* short: nothing at all for an empty string with no length digits.
DecodeStringOneShort(input) ==
    LET separator_index == Position(input, 58)
    IN  IF separator_index = -1 THEN Err("InvalidString")
        ELSE LET length == ParseLength(input, 1, separator_index, 0)
             IN  IF length = -1 THEN Err("InvalidString")
                 ELSE IF length = -2 THEN Err("panic")
                 ELSE IF length = 0 THEN Ok(separator_index, <<>>)
                 ELSE IF length > Len(input) - separator_index - 1 THEN Err("InvalidString")
                 ELSE Ok(separator_index + length,
                         SubSeq(input, separator_index + 2, separator_index + 1 + length))

\* decode_string.
decode_string(input) ==
    LET separator_index == Position(input, 58)
    IN  IF separator_index = -1 THEN Err("InvalidString")
        ELSE LET length == ParseLength(input, 1, separator_index, 0)
             IN  IF length = -1 THEN Err("InvalidString")
                 ELSE IF length = -2 THEN Err("panic")
                 ELSE IF length = 0 THEN Ok(separator_index + 1, <<>>)
                 ELSE IF length > Len(input) - separator_index - 1 THEN Err("InvalidString")
                 ELSE Ok(separator_index + length + 1,
                         SubSeq(input, separator_index + 2, separator_index + 1 + length))

\* str::parse::<i128> on the bytes s: [ok, v].  An optional sign, then
\* at least one digit and nothing else.
RECURSIVE ParseDigits(_, _, _)
ParseDigits(s, i, val) ==
    IF i > Len(s) THEN [ok |-> TRUE, v |-> val]
    ELSE IF s[i] < 48 \/ s[i] > 57 THEN [ok |-> FALSE, v |-> 0]
    ELSE ParseDigits(s, i + 1, val * 10 + (s[i] - 48))

ParseI128(s) ==
    IF s = <<>> THEN [ok |-> FALSE, v |-> 0]
    ELSE IF s[1] \in {43, 45}
    THEN IF Len(s) = 1 THEN [ok |-> FALSE, v |-> 0]
         ELSE LET r == ParseDigits(s, 2, 0)
              IN  [ok |-> r.ok, v |-> IF s[1] = 45 THEN 0 - r.v ELSE r.v]
    ELSE ParseDigits(s, 1, 0)

\* decode_integer (decode calls it on an input that starts with 'i').
decode_integer(input) ==
    IF input = <<>> THEN Err("panic")
    ELSE IF input[1] /= 105 THEN Err("InvalidInteger")
    ELSE LET end_index == Position(input, 101)
         IN  IF end_index = -1 \/ end_index = 0 THEN Err("InvalidInteger")
             ELSE LET integer == ParseI128(SubSeq(input, 2, end_index))
                  IN  IF integer.ok THEN Ok(end_index + 1, integer.v)
                      ELSE Err("InvalidInteger")

\* DecodeState: Start, Value(val), ListStart, DictStart, DictKey(key),
\* DictEntry(key, val).
Frame(k, key, val) == [k |-> k, key |-> key, val |-> val]

Pop(stack) == SubSeq(stack, 1, Len(stack) - 1)
Top(stack) == stack[Len(stack)]

\* What decode does with a decoded string, integer, list or dict: it ends a
\* pending DictKey as a DictEntry, or else goes on the stack as a Value.
PushValue(stack, val) ==
    IF stack = <<>> THEN <<>>
    ELSE IF Top(stack).k = "DictKey"
    THEN Append(Pop(stack), Frame("DictEntry", Top(stack).key, val))
    ELSE Append(stack, Frame("Value", <<>>, val))

\* The values.pop() loops taking from the front of values instead: the
\* elements come out in reverse.
RECURSIVE TakeFramesFromFront(_, _, _)
TakeFramesFromFront(values, kind, taken) ==
    IF values = <<>> THEN [taken |-> taken, left |-> <<>>]
    ELSE IF Head(values).k = kind
    THEN TakeFramesFromFront(Tail(values), kind, Append(taken, Head(values)))
    ELSE [taken |-> taken, left |-> Tail(values)]

\* The loops "if let Some(<kind>(..)) = values.pop() { push } else { break }":
\* the frames taken and what is left of values.
RECURSIVE TakeFrames(_, _, _)
TakeFrames(values, kind, taken) ==
    IF values = <<>> THEN [taken |-> taken, left |-> <<>>]
    ELSE IF Top(values).k = kind THEN TakeFrames(Pop(values), kind, Append(taken, Top(values)))
    ELSE [taken |-> taken, left |-> Pop(values)]

\* The loop run on 'e': [ok, stack, err].
RECURSIVE Unwind(_, _)
Unwind(stack, values) ==
    IF stack = <<>> THEN [ok |-> FALSE, stack |-> <<>>, err |-> "InvalidValue"]
    ELSE LET state == Top(stack)
             rest == Pop(stack)
         IN  IF state.k \in {"ListStart", "DictStart"}
             THEN LET t == TakeFrames(values, IF state.k = "ListStart" THEN "Value" ELSE "DictEntry",
                                      <<>>)
                      val == IF state.k = "ListStart"
                             THEN List([i \in 1..Len(t.taken) |-> t.taken[i].val])
                             ELSE Dict([i \in 1..Len(t.taken) |->
                                           <<t.taken[i].key, t.taken[i].val>>])
                  IN  IF t.left /= <<>> THEN [ok |-> FALSE, stack |-> <<>>, err |-> "InvalidValue"]
                      ELSE IF rest = <<>> THEN [ok |-> FALSE, stack |-> <<>>, err |-> "panic"]
                      ELSE [ok |-> TRUE, stack |-> PushValue(rest, val), err |-> ""]
             ELSE IF state.k \in {"Value", "DictEntry"}
             THEN Unwind(rest, Append(values, state))
             ELSE [ok |-> FALSE, stack |-> <<>>, err |-> "InvalidValue"]

\* One iteration of the while loop of decode, at cursor < len:
\* [ok, cursor, stack, err].
DecodeStep(input, cursor, stack) ==
    LET char == input[cursor + 1]
        input_ == SubSeq(input, cursor + 1, Len(input))
        Fail(e) == [ok |-> FALSE, cursor |-> cursor, stack |-> stack, err |-> e]
        Go(c, st) == [ok |-> TRUE, cursor |-> c, stack |-> st, err |-> ""]
    IN  IF char = 105
        THEN LET r == decode_integer(input_)
             IN  IF ~r.ok THEN Fail(r.err)
                 ELSE IF stack = <<>> THEN Fail("panic")
                 ELSE Go(cursor + r.n, PushValue(stack, Integer(r.v)))
        ELSE IF char = 108 THEN Go(cursor + 1, Append(stack, Frame("ListStart", <<>>, <<>>)))
        ELSE IF char = 100 THEN Go(cursor + 1, Append(stack, Frame("DictStart", <<>>, <<>>)))
        ELSE IF char = 101
        THEN LET u == Unwind(stack, <<>>)
             IN  IF u.ok THEN Go(cursor + 1, u.stack) ELSE Fail(u.err)
        ELSE LET r == decode_string(input_)
             IN  IF ~r.ok THEN Fail(r.err)
                 ELSE IF stack = <<>> THEN Fail("panic")
                 ELSE IF Top(stack).k \in {"DictEntry", "DictStart"}
                 THEN Go(cursor + r.n, Append(stack, Frame("DictKey", r.v, <<>>)))
                 ELSE Go(cursor + r.n, PushValue(stack, ByteString(r.v)))

\* The end of decode, after the loop.
DecodeFinish(cursor, stack) ==
    IF Len(stack) /= 2 THEN Err("InvalidValue")
    ELSE IF Top(stack).k = "Value" THEN Ok(cursor, Top(stack).val)
    ELSE Err("InvalidValue")

\* The while loop of decode left as soon as one complete value is on the stack.
RECURSIVE DecodeLoopFirstValue(_, _, _)
DecodeLoopFirstValue(input, cursor, stack) ==
    IF cursor < Len(input) /\ ~(Len(stack) = 2 /\ Top(stack).k = "Value")
    THEN LET r == DecodeStep(input, cursor, stack)
         IN  IF r.ok THEN DecodeLoopFirstValue(input, r.cursor, r.stack) ELSE Err(r.err)
    ELSE DecodeFinish(cursor, stack)

RECURSIVE DecodeLoop(_, _, _)
DecodeLoop(input, cursor, stack) ==
    IF cursor < Len(input)
    THEN LET r == DecodeStep(input, cursor, stack)
         IN  IF r.ok THEN DecodeLoop(input, r.cursor, r.stack) ELSE Err(r.err)
    ELSE DecodeFinish(cursor, stack)

\* decode.
decode(input) == DecodeLoop(input, 0, <<Frame("Start", <<>>, <<>>)>>)

(***************************************************************************)
(* The routing table as a state machine: one action per public call.       *)
(***************************************************************************)
\* RoutingTable::new(local_id), for any local ID; the codec is idle.
Init ==
    /\ local_id \in Ids
    /\ buckets = <<>>
    /\ op = "new"
    /\ arg = NoNode
    /\ ret = [flag |-> FALSE, node |-> NoNode]
    /\ pre = <<>>
    /\ work = <<>>
    /\ orig = <<>>
    /\ value = <<>>
    /\ stage = "idle"
    /\ bytes = <<>>
    /\ decoded = <<>>
    /\ overflow_checks = FALSE
    /\ decode_cursor = 0
    /\ decode_stack = <<>>
    /\ decode_values = <<>>

Insert(node) ==
    LET r == TableInsert(buckets, local_id, BucketSize, node)
    IN  /\ op' = "insert"
        /\ arg' = node
        /\ pre' = buckets
        /\ buckets' = r.buckets
        /\ ret' = [flag |-> r.ret, node |-> NoNode]
        /\ UNCHANGED <<local_id, bcVars, overflow_checks, decVars>>

Remove(id) ==
    LET r == TableRemove(buckets, id)
    IN  /\ op' = "remove"
        /\ arg' = [id |-> id, addresses |-> "none"]
        /\ pre' = buckets
        /\ buckets' = r.buckets
        /\ ret' = [flag |-> r.ret /= NoNode, node |-> r.ret]
        /\ UNCHANGED <<local_id, bcVars, overflow_checks, decVars>>

Next ==
    \/ \E node \in Nodes : Insert(node)
    \/ \E id \in Ids : Remove(id)

Spec == Init /\ [][Next]_vars

(***************************************************************************)
(* The codec as a state machine: value trees are built bottom-up from      *)
(* leaves with from_list and from_dict; a finished tree is optionally      *)
(* passed through sort_keys, encoded, and the bytes decoded again.         *)
(***************************************************************************)
InitCodec ==
    /\ work = <<>>
    /\ orig = <<>>
    /\ value = <<>>
    /\ stage = "build"
    /\ bytes = <<>>
    /\ decoded = Err("")
    /\ local_id = <<0, 0>>
    /\ buckets = <<>>
    /\ op = "new"
    /\ arg = NoNode
    /\ ret = [flag |-> FALSE, node |-> NoNode]
    /\ pre = <<>>
    /\ overflow_checks = FALSE
    /\ decode_cursor = 0
    /\ decode_stack = <<>>
    /\ decode_values = <<>>

\* BencodeValue::ByteString(..) / BencodeValue::from_integer(..)
NewLeaf(x) ==
    /\ stage = "build"
    /\ NodeCountAll(work) < MaxNodes
    /\ work' = Append(work, x)
    /\ UNCHANGED <<orig, value, stage, bytes, decoded, rtVars, overflow_checks, decVars>>

\* BencodeValue::from_list over the last k trees built
FromList(k) ==
    /\ stage = "build"
    /\ NodeCountAll(work) < MaxNodes
    /\ work' = Append(SubSeq(work, 1, Len(work) - k),
                      List(SubSeq(work, Len(work) - k + 1, Len(work))))
    /\ UNCHANGED <<orig, value, stage, bytes, decoded, rtVars, overflow_checks, decVars>>

\* BencodeValue::from_dict over the last Len(keys) trees built, under the
\* given keys in the given order
FromDict(keys) ==
    /\ stage = "build"
    /\ NodeCountAll(work) < MaxNodes
    /\ work' = Append(SubSeq(work, 1, Len(work) - Len(keys)),
                      Dict([i \in 1..Len(keys) |-> <<keys[i], work[Len(work) - Len(keys) + i]>>]))
    /\ UNCHANGED <<orig, value, stage, bytes, decoded, rtVars, overflow_checks, decVars>>

\* The one tree built is the codec's input.
Take ==
    /\ stage = "build"
    /\ Len(work) = 1
    /\ orig' = work[1]
    /\ value' = work[1]
    /\ work' = <<>>
    /\ stage' = "input"
    /\ UNCHANGED <<bytes, decoded, rtVars, overflow_checks, decVars>>

\* value.sort_keys()
SortKeys ==
    /\ stage = "input"
    /\ value' = sort_keys(value)
    /\ stage' = "sorted"
    /\ UNCHANGED <<work, orig, bytes, decoded, rtVars, overflow_checks, decVars>>

\* bytes = encode(&value)
Encode ==
    /\ stage \in {"input", "sorted"}
    /\ bytes' = encode(value)
    /\ stage' = "encoded"
    /\ UNCHANGED <<work, orig, value, decoded, rtVars, overflow_checks, decVars>>

\* decoded = decode(&bytes)
Decode ==
    /\ stage = "encoded"
    /\ decoded' = decode(bytes)
    /\ stage' = "decoded"
    /\ UNCHANGED <<work, orig, value, bytes, rtVars, overflow_checks, decVars>>

NextCodec ==
    \/ \E x \in Leaves : NewLeaf(x)
    \/ \E k \in 0..Len(work) : FromList(k)
    \/ \E k \in 0..Len(work) : \E keys \in [1..k -> KeyPayloads] : FromDict(keys)
    \/ Take
    \/ SortKeys
    \/ Encode
    \/ Decode

SpecCodec == InitCodec /\ [][NextCodec]_vars

(***************************************************************************)
(* The decoders on raw input: any bytes at all are put together, as a      *)
(* datagram off the network is, and handed to one of the public decoders.  *)
(***************************************************************************)
\* The bytes inputs are made of: 'd', 'e', 'i', 'l', '1' and ':'.
RawBytes == {100, 101, 105, 108, 49, 58}

InitRaw ==
    /\ bytes = <<>>
    /\ stage = "raw"
    /\ decoded = Err("")
    /\ op = "new"
    /\ overflow_checks \in BOOLEAN
    /\ decode_cursor = 0
    /\ decode_stack = <<>>
    /\ decode_values = <<>>
    /\ work = <<>>
    /\ orig = <<>>
    /\ value = <<>>
    /\ local_id = <<0, 0>>
    /\ buckets = <<>>
    /\ arg = NoNode
    /\ ret = [flag |-> FALSE, node |-> NoNode]
    /\ pre = <<>>

\* One more byte of input arrives.
InputByte(b) ==
    /\ stage = "raw"
    /\ Len(bytes) < MaxInput
    /\ bytes' = Append(bytes, b)
    /\ UNCHANGED <<work, orig, value, stage, decoded, rtVars, overflow_checks, decVars>>

\* decoded = decode(&bytes)
CallDecode ==
    /\ stage = "raw"
    /\ decoded' = decode(bytes)
    /\ op' = "decode"
    /\ stage' = "returned"
    /\ UNCHANGED <<work, orig, value, bytes, buckets, local_id, arg, ret, pre, overflow_checks, decVars>>

\* decoded = decode_string(&bytes)
CallDecodeString ==
    /\ stage = "raw"
    /\ decoded' = decode_string(bytes)
    /\ op' = "decode_string"
    /\ stage' = "returned"
    /\ UNCHANGED <<work, orig, value, bytes, buckets, local_id, arg, ret, pre, overflow_checks, decVars>>

\* decoded = decode_integer(&bytes)
CallDecodeInteger ==
    /\ stage = "raw"
    /\ decoded' = decode_integer(bytes)
    /\ op' = "decode_integer"
    /\ stage' = "returned"
    /\ UNCHANGED <<work, orig, value, bytes, buckets, local_id, arg, ret, pre, overflow_checks, decVars>>

NextRaw ==
    \/ \E b \in RawBytes : InputByte(b)
    \/ CallDecode
    \/ CallDecodeString
    \/ CallDecodeInteger

SpecRaw == InitRaw /\ [][NextRaw]_vars

(***************************************************************************)
(* decode step by step: the while loop one iteration at a time, and the    *)
(* loop it runs on 'e' one pop at a time.                                  *)
(***************************************************************************)
\* decode's stack set up without the Start frame.
InitialStackEmpty == <<>>

\* let mut stack = Vec::new(); stack.push(DecodeState::Start);
InitialStack == <<Frame("Start", <<>>, <<>>)>>

\* One pass through the loop run on 'e': [k, stack, values, err], k being
\* "continue", "break" (the list or dict is closed) or "return" (with err).
UnwindStep(stack, values) ==
    LET Return(e) == [k |-> "return", stack |-> stack, values |-> values, err |-> e]
    IN  IF stack = <<>> THEN Return("InvalidValue")
        ELSE LET state == Top(stack)
                 rest == Pop(stack)
             IN  IF state.k \in {"ListStart", "DictStart"}
                 THEN LET t == TakeFrames(values,
                                          IF state.k = "ListStart" THEN "Value" ELSE "DictEntry",
                                          <<>>)
                          val == IF state.k = "ListStart"
                                 THEN List([i \in 1..Len(t.taken) |-> t.taken[i].val])
                                 ELSE Dict([i \in 1..Len(t.taken) |->
                                               <<t.taken[i].key, t.taken[i].val>>])
                      IN  IF t.left /= <<>> THEN Return("InvalidValue")
                          ELSE IF rest = <<>> THEN Return("panic")
                          ELSE [k |-> "break", stack |-> PushValue(rest, val),
                                values |-> t.left, err |-> ""]
                 ELSE IF state.k \in {"Value", "DictEntry"}
                 THEN [k |-> "continue", stack |-> rest, values |-> Append(values, state),
                       err |-> ""]
                 ELSE Return("InvalidValue")

\* decode(&bytes) is entered: the stack is set up and the cursor is 0.
BeginDecode ==
    /\ stage = "raw"
    /\ decode_stack' = InitialStack
    /\ decode_cursor' = 0
    /\ decode_values' = <<>>
    /\ op' = "decode"
    /\ stage' = "decoding"
    /\ UNCHANGED <<work, orig, value, bytes, decoded, buckets, local_id, arg, ret, pre,
                   overflow_checks>>

\* One iteration of the while loop, up to the loop that 'e' runs.
DecodeIteration ==
    /\ stage = "decoding"
    /\ decode_cursor < Len(bytes)
    /\ IF bytes[decode_cursor + 1] = 101
       THEN /\ decode_cursor' = decode_cursor + 1
            /\ decode_values' = <<>>
            /\ stage' = "unwinding"
            /\ UNCHANGED <<decode_stack, decoded>>
       ELSE LET r == DecodeStep(bytes, decode_cursor, decode_stack)
            IN  IF r.ok
                THEN /\ decode_cursor' = r.cursor
                     /\ decode_stack' = r.stack
                     /\ UNCHANGED <<decode_values, stage, decoded>>
                ELSE /\ decoded' = Err(r.err)
                     /\ stage' = "returned"
                     /\ UNCHANGED decVars
    /\ UNCHANGED <<work, orig, value, bytes, op, buckets, local_id, arg, ret, pre,
                   overflow_checks>>

\* One pass through the loop run on 'e'.
UnwindIteration ==
    /\ stage = "unwinding"
    /\ LET u == UnwindStep(decode_stack, decode_values)
       IN  IF u.k = "return"
           THEN /\ decoded' = Err(u.err)
                /\ stage' = "returned"
                /\ UNCHANGED <<decode_stack, decode_values>>
           ELSE /\ decode_stack' = u.stack
                /\ decode_values' = u.values
                /\ stage' = IF u.k = "break" THEN "decoding" ELSE "unwinding"
                /\ UNCHANGED decoded
    /\ UNCHANGED <<work, orig, value, bytes, op, buckets, local_id, arg, ret, pre,
                   overflow_checks, decode_cursor>>

\* The while loop is left and decode returns.
DecodeReturn ==
    /\ stage = "decoding"
    /\ decode_cursor >= Len(bytes)
    /\ decoded' = DecodeFinish(decode_cursor, decode_stack)
    /\ stage' = "returned"
    /\ UNCHANGED <<work, orig, value, bytes, op, buckets, local_id, arg, ret, pre,
                   overflow_checks, decVars>>

NextDecode ==
    \/ \E b \in RawBytes : InputByte(b)
    \/ BeginDecode
    \/ DecodeIteration
    \/ UnwindIteration
    \/ DecodeReturn

SpecDecode == InitRaw /\ [][NextDecode]_vars

\* decode is one sequential call: once entered, it keeps taking its next step.
SpecDecodeRun ==
    /\ SpecDecode
    /\ WF_vars(DecodeIteration)
    /\ WF_vars(UnwindIteration)
    /\ WF_vars(DecodeReturn)

(***************************************************************************)
(* KRPC messages (krpc/{response,query,error}.rs).  Keys and method names  *)
(* are the byte strings of the source's literals.                          *)
(***************************************************************************)
key_t == <<116>>
key_y == <<121>>
key_r == <<114>>
key_id == <<105, 100>>
key_values == <<118, 97, 108, 117, 101, 115>>
key_token == <<116, 111, 107, 101, 110>>
key_nodes == <<110, 111, 100, 101, 115>>
QUERY_TYPE_PING == <<112, 105, 110, 103>>
QUERY_TYPE_FIND_NODE == <<102, 105, 110, 100, 95, 110, 111, 100, 101>>
QUERY_TYPE_GET_PEERS == <<103, 101, 116, 95, 112, 101, 101, 114, 115>>

\* dict.iter().find(|(key, _)| key.as_ref() == k): the 1-based index of the
\* first entry under the key k, or 0.
RECURSIVE FindKeyFrom(_, _, _)
FindKeyFrom(dict, k, i) ==
    IF i > Len(dict) THEN 0
    ELSE IF dict[i][1] = k THEN i
    ELSE FindKeyFrom(dict, k, i + 1)
FindKey(dict, k) == FindKeyFrom(dict, k, 1)

\* A parser's result: Ok(v) or Err(err).
POk(v) == [ok |-> TRUE, v |-> v, err |-> ""]
PErr(e) == [ok |-> FALSE, v |-> <<>>, err |-> e]

\* Response::try_from_bencoded_internal: Ok((transaction_id, response)).
try_from_bencoded_internal(bencoded) ==
    IF bencoded.t /= "Dict" THEN PErr("Invalid response format")
    ELSE LET dict == bencoded.v
             y == FindKey(dict, key_y)
             t == FindKey(dict, key_t)
             r == FindKey(dict, key_r)
         IN  IF y = 0 THEN PErr("Missing 'y' field")
             ELSE IF dict[y][2].t /= "ByteString" THEN PErr("Invalid 'y' field")
             ELSE IF dict[y][2].v /= <<114>> THEN PErr("Invalid message type")
             ELSE IF t = 0 THEN PErr("Missing 't' field")
             ELSE IF dict[t][2].t /= "ByteString" THEN PErr("Invalid 't' field")
             ELSE IF r = 0 THEN PErr("Missing 'r' field")
             ELSE IF dict[r][2].t /= "Dict" THEN PErr("Invalid 'r' field")
             ELSE POk([transaction_id |-> dict[t][2].v, response |-> dict[r][2].v])

\* The final match of try_guess_type_from_bencoded with the nodes arm put
\* before the token arm.
GuessNodesBeforeToken(has_values_field, has_token_field, has_nodes_field) ==
    IF has_values_field THEN QUERY_TYPE_GET_PEERS
    ELSE IF has_nodes_field THEN QUERY_TYPE_FIND_NODE
    ELSE IF has_token_field THEN QUERY_TYPE_GET_PEERS
    ELSE QUERY_TYPE_PING

\* The final match of try_guess_type_from_bencoded on the three flags.
GuessFromFlags(has_values_field, has_token_field, has_nodes_field) ==
    IF has_values_field THEN QUERY_TYPE_GET_PEERS
    ELSE IF has_token_field THEN QUERY_TYPE_GET_PEERS
    ELSE IF has_nodes_field THEN QUERY_TYPE_FIND_NODE
    ELSE QUERY_TYPE_PING

\* Response::try_guess_type_from_bencoded: Ok((query type, transaction_id)).
try_guess_type_from_bencoded(bencoded) ==
    LET r == try_from_bencoded_internal(bencoded)
    IN  IF ~r.ok THEN r
        ELSE LET response == r.v.response
                 has_values_field == \E i \in 1..Len(response) : response[i][1] = key_values
                 has_token_field == \E i \in 1..Len(response) : response[i][1] = key_token
                 has_nodes_field == \E i \in 1..Len(response) : response[i][1] = key_nodes
             IN  POk([type |-> GuessFromFlags(has_values_field, has_token_field,
                                              has_nodes_field),
                      transaction_id |-> r.v.transaction_id])

(***************************************************************************)
(* Error messages (krpc/error.rs).  An Option is <<>> for None and <<x>>   *)
(* for Some(x).                                                            *)
(***************************************************************************)
key_e == <<101>>

\* String::from_utf8 accepts s from index i on: well-formed UTF-8 only.
RECURSIVE IsUtf8From(_, _)
IsUtf8From(s, i) ==
    LET Cont(k, lo, hi) == k <= Len(s) /\ s[k] >= lo /\ s[k] <= hi
        b == s[i]
    IN  IF i > Len(s) THEN TRUE
        ELSE IF b < 128 THEN IsUtf8From(s, i + 1)
        ELSE IF b >= 194 /\ b <= 223 THEN Cont(i + 1, 128, 191) /\ IsUtf8From(s, i + 2)
        ELSE IF b >= 224 /\ b <= 239
        THEN /\ Cont(i + 1, IF b = 224 THEN 160 ELSE 128, IF b = 237 THEN 159 ELSE 191)
             /\ Cont(i + 2, 128, 191)
             /\ IsUtf8From(s, i + 3)
        ELSE IF b >= 240 /\ b <= 244
        THEN /\ Cont(i + 1, IF b = 240 THEN 144 ELSE 128, IF b = 244 THEN 143 ELSE 191)
             /\ Cont(i + 2, 128, 191)
             /\ Cont(i + 3, 128, 191)
             /\ IsUtf8From(s, i + 4)
        ELSE FALSE

\* ErrorCode::try_from taking the code 205 as well.
ErrorCodeUpTo205(val) == IF val >= 201 /\ val <= 205 THEN <<val>> ELSE <<>>

\* <ErrorCode as TryFrom<i128>>::try_from: Some(code), or None for Err(()).
ErrorCode_try_from(val) == IF val \in {201, 202, 203, 204} THEN <<val>> ELSE <<>>

\* The for loop of ErrorMessage::try_from_bencoded from entry i on, then
\* what follows the loop.
RECURSIVE ErrorMessageLoop(_, _, _, _, _)
ErrorMessageLoop(dict, i, transaction_id, code, message) ==
    IF i > Len(dict)
    THEN IF transaction_id = <<>> THEN PErr("missing transaction ID")
         ELSE IF code = <<>> THEN PErr("missing error code")
         ELSE IF message = <<>> THEN PErr("missing error message")
         ELSE IF ~IsUtf8From(message[1], 1) THEN PErr("invalid error message")
         ELSE POk([transaction_id |-> transaction_id[1], code |-> code[1],
                   message |-> message[1]])
    ELSE LET key == dict[i][1]
             val == dict[i][2]
         IN  IF key = key_t
             THEN IF val.t /= "ByteString" THEN PErr("expected string")
                  ELSE ErrorMessageLoop(dict, i + 1, <<val.v>>, code, message)
             ELSE IF key = key_e
             THEN IF val.t /= "List" THEN PErr("expected list")
                  ELSE IF Len(val.v) /= 2 THEN PErr("expected list of length 2")
                  ELSE IF val.v[1].t /= "Integer" THEN PErr("expected integer")
                  ELSE IF ErrorCode_try_from(val.v[1].v) = <<>> THEN PErr("invalid error code")
                  ELSE IF val.v[2].t /= "ByteString" THEN PErr("expected string")
                  ELSE ErrorMessageLoop(dict, i + 1, transaction_id,
                                        ErrorCode_try_from(val.v[1].v), <<val.v[2].v>>)
             ELSE ErrorMessageLoop(dict, i + 1, transaction_id, code, message)

\* ErrorMessage::try_from_bencoded
ErrorMessage_try_from_bencoded(input) ==
    IF input.t /= "Dict" THEN PErr("expected dictionary")
    ELSE ErrorMessageLoop(input.v, 1, <<>>, <<>>, <<>>)

(***************************************************************************)
(* announce_peer arguments (krpc/query.rs), with the crawler's             *)
(* BittorrentNodeId as the NodeId.                                         *)
(***************************************************************************)
key_port == <<112, 111, 114, 116>>
key_info_hash == <<105, 110, 102, 111, 95, 104, 97, 115, 104>>

\* <BittorrentNodeId as TryFrom<&[u8]>>::try_from: Some(id), or None for Err.
NodeId_try_from(val) == IF Len(val) /= 20 THEN <<>> ELSE <<val>>

\* The port test with its upper bound left out.
PortNotNegative(port_) == ~(port_ < 0)

\* The port test of AnnouncePeer::try_from_arguments, negated:
\* !(*port_ < 0 || *port_ > u16::MAX as i128).
PortInRange(port_) == ~(port_ < 0 \/ port_ > 65535)

\* The for loop of AnnouncePeer::try_from_arguments from entry i on, then
\* the match that follows it.
RECURSIVE AnnouncePeerLoop(_, _, _, _, _, _)
AnnouncePeerLoop(arguments, i, id, info_hash, port, token) ==
    IF i > Len(arguments)
    THEN IF id /= <<>> /\ info_hash /= <<>> /\ port /= <<>> /\ token /= <<>>
         THEN POk([id |-> id[1], info_hash |-> info_hash[1], port |-> port[1],
                   token |-> token[1]])
         ELSE PErr("Missing required field(s)")
    ELSE LET key == arguments[i][1]
             val == arguments[i][2]
         IN  IF key = key_id
             THEN IF val.t /= "ByteString" THEN PErr("Invalid 'id' field")
                  ELSE IF NodeId_try_from(val.v) = <<>> THEN PErr("Invalid NodeId")
                  ELSE AnnouncePeerLoop(arguments, i + 1, NodeId_try_from(val.v), info_hash,
                                        port, token)
             ELSE IF key = key_info_hash
             THEN IF val.t /= "ByteString" THEN PErr("Invalid 'info_hash' field")
                  ELSE IF NodeId_try_from(val.v) = <<>> THEN PErr("Invalid InfoHash")
                  ELSE AnnouncePeerLoop(arguments, i + 1, id, NodeId_try_from(val.v),
                                        port, token)
             ELSE IF key = key_port
             THEN IF val.t /= "Integer" THEN PErr("Invalid 'port' field")
                  ELSE IF ~PortInRange(val.v) THEN PErr("Invalid 'port' field")
                  ELSE AnnouncePeerLoop(arguments, i + 1, id, info_hash,
                                        <<val.v % 65536>>, token)
             ELSE IF key = key_token
             THEN IF val.t /= "ByteString" THEN PErr("Invalid 'token' field")
                  ELSE AnnouncePeerLoop(arguments, i + 1, id, info_hash, port, <<val.v>>)
             ELSE AnnouncePeerLoop(arguments, i + 1, id, info_hash, port, token)

\* <AnnouncePeer as TryFromArguments>::try_from_arguments
AnnouncePeer_try_from_arguments(arguments) ==
    AnnouncePeerLoop(arguments, 1, <<>>, <<>>, <<>>, <<>>)

(***************************************************************************)
(* Compact node and peer info of the crawler (bitcrawler/src/main.rs):     *)
(* BittorrentNodeInfoV4 is [node_id, address], IPv4Address is [ip, port].  *)
(***************************************************************************)
\* u16::to_be_bytes
to_be_bytes(port) == <<port \div 256, port % 256>>

\* The two bytes read low byte first.
FromLeBytes(b) == b[2] * 256 + b[1]

\* u16::from_be_bytes
from_be_bytes(b) == b[1] * 256 + b[2]

\* <IPv4Address as CompactPeerInfo>::write_compact_peer_info
write_compact_peer_info(self) == self.ip \o to_be_bytes(self.port)

\* <IPv4Address as CompactPeerInfo>::try_read_compact_peer_info: Ok((6, _)).
try_read_compact_peer_info(data) ==
    IF Len(data) < 6 THEN PErr("Invalid length for compact peer info")
    ELSE POk([n |-> 6,
              v |-> [ip |-> SubSeq(data, 1, 4), port |-> from_be_bytes(SubSeq(data, 5, 6))]])

\* <BittorrentNodeInfoV4 as CompactNodeInfo>::write_compact_node_info
write_compact_node_info(self) ==
    self.node_id \o self.address.ip \o to_be_bytes(self.address.port)

\* <BittorrentNodeInfoV4 as CompactNodeInfo>::try_read_compact_node_info:
\* Ok((26, _)).
try_read_compact_node_info(data) ==
    IF Len(data) < 26 THEN PErr("Invalid length for compact node info")
    ELSE POk([n |-> 26,
              v |-> [node_id |-> SubSeq(data, 1, 20),
                     address |-> [ip |-> SubSeq(data, 21, 24),
                                  port |-> from_be_bytes(SubSeq(data, 25, 26))]]])

\* The node IDs, addresses and node infos messages are made of: 20-byte
\* IDs of bytes all different, ports on both sides of a byte boundary.
NodeIds20 == {[i \in 1..20 |-> (b + i) % 256] : b \in {0, 250}}
IPv4Addresses ==
    {[ip |-> ip, port |-> port] : ip \in {<<1, 2, 3, 4>>, <<255, 0, 0, 10>>},
                                  port \in {0, 255, 256, 1234, 65535}}
NodeInfos == {[node_id |-> n, address |-> a] : n \in NodeIds20, a \in IPv4Addresses}

(***************************************************************************)
(* Responses going out (krpc/response.rs).  A Response is                  *)
(* [transaction_id, response]; a GetPeers is [kind, id, token, nodes,      *)
(* peers] with token <<>> for None and <<t>> for Some(t).                  *)
(***************************************************************************)
\* Vec::extend over the pieces, one after the other.
RECURSIVE ConcatAll(_)
ConcatAll(pieces) == IF pieces = <<>> THEN <<>> ELSE pieces[1] \o ConcatAll(Tail(pieces))

\* <GetPeers as ToArguments>::to_arguments: the entries in the order they
\* are inserted into the HashMap.
GetPeers_to_arguments(self) ==
    <<<<key_id, ByteString(self.id)>>>>
    \o (IF self.token = <<>> THEN <<>> ELSE <<<<key_token, ByteString(self.token[1])>>>>)
    \o <<<<key_nodes,
           ByteString(ConcatAll([i \in 1..Len(self.nodes) |->
                                    write_compact_node_info(self.nodes[i])]))>>>>
    \o <<<<key_values,
           ByteString(ConcatAll([i \in 1..Len(self.peers) |->
                                    write_compact_peer_info(self.peers[i])]))>>>>

\* ResponseType::to_arguments, with <Ping as ToArguments> and <FindNode as
\* ToArguments>: the entries in the order they are inserted into the HashMap.
to_arguments(self) ==
    IF self.kind = "Ping" THEN <<<<key_id, ByteString(self.id)>>>>
    ELSE IF self.kind = "FindNode"
    THEN <<<<key_id, ByteString(self.id)>>,
           <<key_nodes,
             ByteString(ConcatAll([i \in 1..Len(self.nodes) |->
                                      write_compact_node_info(self.nodes[i])]))>>>>
    ELSE GetPeers_to_arguments(self)

\* ResponseType::get_query_type
get_query_type(self) ==
    IF self.kind = "Ping" THEN QUERY_TYPE_PING
    ELSE IF self.kind = "FindNode" THEN QUERY_TYPE_FIND_NODE
    ELSE QUERY_TYPE_FIND_NODE

\* HashMap::into_iter().collect(): the entries in an order the map picks.
IterationOrders(entries) ==
    {[i \in 1..Len(entries) |-> entries[f[i]]] :
        f \in {g \in [1..Len(entries) -> 1..Len(entries)] :
                  \A i, j \in 1..Len(entries) : g[i] = g[j] => i = j}}

\* Response::to_bencoded: the values it can return, one for each order the
\* two HashMaps can be iterated in.
to_bencoded(self) ==
    {Dict(dictionary) :
        dictionary \in UNION {IterationOrders(<<<<key_t, ByteString(self.transaction_id)>>,
                                                <<key_y, ByteString(<<114>>)>>,
                                                <<key_r, Dict(arguments)>>>>) :
                                 arguments \in IterationOrders(
                                                   to_arguments(self.response))}}

\* The while loop of FindNode and GetPeers try_from_arguments over the
\* nodes string from i on: the node infos read, or an error.
RECURSIVE ReadNodes(_, _, _)
ReadNodes(node_list, i, nodes) ==
    IF i >= Len(node_list) THEN POk(nodes)
    ELSE LET r == try_read_compact_node_info(SubSeq(node_list, i + 1, Len(node_list)))
         IN  IF ~r.ok THEN PErr("Invalid node info")
             ELSE ReadNodes(node_list, i + r.v.n, Append(nodes, r.v.v))

\* The for loop of GetPeers::try_from_arguments over the values list.
RECURSIVE ReadPeers(_, _, _)
ReadPeers(peer_infos, i, peers) ==
    IF i > Len(peer_infos) THEN POk(peers)
    ELSE IF peer_infos[i].t /= "ByteString" THEN PErr("Invalid peer info")
    ELSE LET r == try_read_compact_peer_info(peer_infos[i].v)
         IN  IF ~r.ok THEN PErr("Invalid peer info")
             ELSE ReadPeers(peer_infos, i + 1, Append(peers, r.v.v))

\* <Ping as TryFromArguments>::try_from_arguments
Ping_try_from_arguments(arguments) ==
    LET id == FindKey(arguments, key_id)
    IN  IF id = 0 THEN PErr("Missing 'id' field")
        ELSE IF arguments[id][2].t /= "ByteString" THEN PErr("Invalid 'id' field")
        ELSE IF NodeId_try_from(arguments[id][2].v) = <<>> THEN PErr("Invalid NodeId")
        ELSE POk([kind |-> "Ping", id |-> NodeId_try_from(arguments[id][2].v)[1]])

\* <FindNode as TryFromArguments>::try_from_arguments
FindNode_try_from_arguments(arguments) ==
    LET id == FindKey(arguments, key_id)
        node_list == FindKey(arguments, key_nodes)
    IN  IF id = 0 THEN PErr("Missing 'id' field")
        ELSE IF arguments[id][2].t /= "ByteString" THEN PErr("Invalid 'id' field")
        ELSE IF node_list = 0 THEN PErr("Missing 'nodes' field")
        ELSE IF arguments[node_list][2].t /= "ByteString" THEN PErr("Invalid 'nodes' field")
        ELSE LET nodes == ReadNodes(arguments[node_list][2].v, 0, <<>>)
             IN  IF ~nodes.ok THEN nodes
                 ELSE IF NodeId_try_from(arguments[id][2].v) = <<>> THEN PErr("Invalid NodeId")
                 ELSE POk([kind |-> "FindNode",
                           id |-> NodeId_try_from(arguments[id][2].v)[1],
                           nodes |-> nodes.v])

\* <GetPeers as TryFromArguments>::try_from_arguments
GetPeers_try_from_arguments(arguments) ==
    LET id == FindKey(arguments, key_id)
        token == FindKey(arguments, key_token)
        nodes == FindKey(arguments, key_nodes)
        values == FindKey(arguments, key_values)
        node_list == IF nodes = 0 THEN POk(<<>>)
                     ELSE ReadNodes(arguments[nodes][2].v, 0, <<>>)
        peer_list == IF values = 0 THEN POk(<<>>)
                     ELSE ReadPeers(arguments[values][2].v, 1, <<>>)
    IN  IF id = 0 THEN PErr("Missing 'id' field")
        ELSE IF arguments[id][2].t /= "ByteString" THEN PErr("Invalid 'id' field")
        ELSE IF token /= 0 /\ arguments[token][2].t /= "ByteString"
        THEN PErr("Invalid 'token' field")
        ELSE IF nodes /= 0 /\ arguments[nodes][2].t /= "ByteString"
        THEN PErr("Invalid 'nodes' field")
        ELSE IF ~node_list.ok THEN node_list
        ELSE IF values /= 0 /\ arguments[values][2].t /= "List"
        THEN PErr("Invalid 'peers' field")
        ELSE IF ~peer_list.ok THEN peer_list
        ELSE IF NodeId_try_from(arguments[id][2].v) = <<>> THEN PErr("Invalid NodeId")
        ELSE POk([kind |-> "GetPeers",
                  id |-> NodeId_try_from(arguments[id][2].v)[1],
                  token |-> IF token = 0 THEN <<>> ELSE <<arguments[token][2].v>>,
                  nodes |-> node_list.v,
                  peers |-> peer_list.v])

\* Response::try_from_ping_bencoded, try_from_findpeer_bencoded and
\* try_from_getpeers_bencoded: the parser of the given kind.
try_from_kind_bencoded(kind, bencoded) ==
    LET internal == try_from_bencoded_internal(bencoded)
    IN  IF ~internal.ok THEN internal
        ELSE LET response_type ==
                     IF kind = "Ping" THEN Ping_try_from_arguments(internal.v.response)
                     ELSE IF kind = "FindNode"
                     THEN FindNode_try_from_arguments(internal.v.response)
                     ELSE GetPeers_try_from_arguments(internal.v.response)
             IN  IF ~response_type.ok THEN response_type
                 ELSE POk([transaction_id |-> internal.v.transaction_id,
                           response |-> response_type.v])

\* The GetPeers responses sent: with and without token, up to two nodes
\* and up to two peers.
GetPeersResponses ==
    {[transaction_id |-> <<97, 97>>,
      response |-> [kind |-> "GetPeers", id |-> id, token |-> token,
                    nodes |-> nodes, peers |-> peers]] :
        id \in NodeIds20, token \in {<<>>, <<<<120>>>>},
        nodes \in SeqsUpTo({x \in NodeInfos : x.address = [ip |-> <<1, 2, 3, 4>>,
                                                           port |-> 1234]}, 2),
        peers \in SeqsUpTo({a \in IPv4Addresses : a.port = 1234}, 2)}

\* The responses sent: the GetPeers ones, and Ping and FindNode responses
\* with up to two nodes.
Responses ==
    GetPeersResponses
    \cup {[transaction_id |-> t, response |-> [kind |-> "Ping", id |-> id]] :
             t \in {<<97, 97>>, <<0>>}, id \in NodeIds20}
    \cup {[transaction_id |-> t,
           response |-> [kind |-> "FindNode", id |-> id, nodes |-> nodes]] :
             t \in {<<97, 97>>, <<0>>}, id \in NodeIds20,
             nodes \in SeqsUpTo({x \in NodeInfos : x.address.port = 256}, 2)}

(***************************************************************************)
(* Queries (krpc/query.rs).  A Query is [transaction_id, query]; a         *)
(* QueryType is [kind, v], v being the Ping, FindNode, GetPeers or         *)
(* AnnouncePeer struct.                                                    *)
(***************************************************************************)
key_q == <<113>>
key_a == <<97>>
key_target == <<116, 97, 114, 103, 101, 116>>
QUERY_TYPE_ANNOUNCE_PEER == <<97, 110, 110, 111, 117, 110, 99, 101, 95, 112, 101, 101, 114>>

\* QueryType::get_query_type with the arm of GetPeers a copy of the arm
\* of FindNode.
QueryTypeGetPeersAsFindNode(self) ==
    IF self.kind = "Ping" THEN QUERY_TYPE_PING
    ELSE IF self.kind = "FindNode" THEN QUERY_TYPE_FIND_NODE
    ELSE IF self.kind = "GetPeers" THEN QUERY_TYPE_FIND_NODE
    ELSE QUERY_TYPE_ANNOUNCE_PEER

\* QueryType::get_query_type
Query_get_query_type(self) ==
    IF self.kind = "Ping" THEN QUERY_TYPE_PING
    ELSE IF self.kind = "FindNode" THEN QUERY_TYPE_FIND_NODE
    ELSE IF self.kind = "GetPeers" THEN QUERY_TYPE_GET_PEERS
    ELSE QUERY_TYPE_ANNOUNCE_PEER

\* QueryType::to_arguments and the four ToArguments impls: the entries in
\* the order they are inserted into the HashMap.
Query_to_arguments(self) ==
    IF self.kind = "Ping" THEN <<<<key_id, ByteString(self.v.id)>>>>
    ELSE IF self.kind = "FindNode"
    THEN <<<<key_id, ByteString(self.v.id)>>, <<key_target, ByteString(self.v.target)>>>>
    ELSE IF self.kind = "GetPeers"
    THEN <<<<key_id, ByteString(self.v.id)>>, <<key_info_hash, ByteString(self.v.info_hash)>>>>
    ELSE <<<<key_id, ByteString(self.v.id)>>,
           <<key_info_hash, ByteString(self.v.info_hash)>>,
           <<key_port, Integer(self.v.port)>>,
           <<key_token, ByteString(self.v.token)>>>>

\* Query::to_bencoded: the values it can return, one for each order the two
\* HashMaps can be iterated in.
Query_to_bencoded(self) ==
    {Dict(dictionary) :
        dictionary \in UNION {IterationOrders(
                                  <<<<key_t, ByteString(self.transaction_id)>>,
                                    <<key_y, ByteString(<<113>>)>>,
                                    <<key_q, ByteString(Query_get_query_type(self.query))>>,
                                    <<key_a, Dict(arguments)>>>>) :
                                 arguments \in IterationOrders(Query_to_arguments(self.query))}}

\* <Ping as TryFromArguments>::try_from_arguments (query.rs)
QueryPing_try_from_arguments(arguments) ==
    LET id == FindKey(arguments, key_id)
    IN  IF id = 0 THEN PErr("Missing 'id' field")
        ELSE IF arguments[id][2].t /= "ByteString" THEN PErr("Invalid 'id' field")
        ELSE IF NodeId_try_from(arguments[id][2].v) = <<>> THEN PErr("Invalid NodeId")
        ELSE POk([id |-> NodeId_try_from(arguments[id][2].v)[1]])

\* <FindNode as TryFromArguments>::try_from_arguments (query.rs)
QueryFindNode_try_from_arguments(arguments) ==
    LET id == FindKey(arguments, key_id)
        target == FindKey(arguments, key_target)
    IN  IF id = 0 THEN PErr("Missing 'id' field")
        ELSE IF target = 0 THEN PErr("Missing 'target' field")
        ELSE IF arguments[id][2].t /= "ByteString" \/ arguments[target][2].t /= "ByteString"
        THEN PErr("Invalid 'id' or 'target' field")
        ELSE IF NodeId_try_from(arguments[id][2].v) = <<>> THEN PErr("Invalid NodeId")
        ELSE IF NodeId_try_from(arguments[target][2].v) = <<>> THEN PErr("Invalid NodeId")
        ELSE POk([id |-> NodeId_try_from(arguments[id][2].v)[1],
                  target |-> NodeId_try_from(arguments[target][2].v)[1]])

\* <GetPeers as TryFromArguments>::try_from_arguments (query.rs)
QueryGetPeers_try_from_arguments(arguments) ==
    LET id == FindKey(arguments, key_id)
        info_hash == FindKey(arguments, key_info_hash)
    IN  IF id = 0 THEN PErr("Missing 'id' field")
        ELSE IF info_hash = 0 THEN PErr("Missing 'info_hash' field")
        ELSE IF arguments[id][2].t /= "ByteString"
                \/ arguments[info_hash][2].t /= "ByteString"
        THEN PErr("Invalid 'id' or 'info_hash' field")
        ELSE IF NodeId_try_from(arguments[id][2].v) = <<>> THEN PErr("Invalid NodeId")
        ELSE IF NodeId_try_from(arguments[info_hash][2].v) = <<>>
        THEN PErr("Invalid NodeId/InfoHash")
        ELSE POk([id |-> NodeId_try_from(arguments[id][2].v)[1],
                  info_hash |-> NodeId_try_from(arguments[info_hash][2].v)[1]])

\* Query::try_from_bencoded
Query_try_from_bencoded(input) ==
    IF input.t /= "Dict" THEN PErr("Invalid query - not a dictionary")
    ELSE LET dict == input.v
             t == FindKey(dict, key_t)
             q == FindKey(dict, key_q)
             a == FindKey(dict, key_a)
         IN  IF t = 0 \/ dict[t][2].t /= "ByteString" THEN PErr("Missing 't' field")
             ELSE IF q = 0 \/ dict[q][2].t /= "ByteString" THEN PErr("Missing 'q' field")
             ELSE IF a = 0 \/ dict[a][2].t /= "Dict" THEN PErr("Missing 'a' field")
             ELSE LET query_type == dict[q][2].v
                      arguments == dict[a][2].v
                      kind == IF query_type = QUERY_TYPE_PING THEN "Ping"
                              ELSE IF query_type = QUERY_TYPE_FIND_NODE THEN "FindNode"
                              ELSE IF query_type = QUERY_TYPE_GET_PEERS THEN "GetPeers"
                              ELSE IF query_type = QUERY_TYPE_ANNOUNCE_PEER THEN "AnnouncePeer"
                              ELSE "none"
                      query == IF kind = "Ping" THEN QueryPing_try_from_arguments(arguments)
                               ELSE IF kind = "FindNode"
                               THEN QueryFindNode_try_from_arguments(arguments)
                               ELSE IF kind = "GetPeers"
                               THEN QueryGetPeers_try_from_arguments(arguments)
                               ELSE AnnouncePeer_try_from_arguments(arguments)
                  IN  IF kind = "none" THEN PErr("Invalid query type")
                      ELSE IF ~query.ok THEN query
                      ELSE POk([transaction_id |-> dict[t][2].v,
                                query |-> [kind |-> kind, v |-> query.v]])

\* The queries sent: the four kinds, transaction IDs and tokens that hold
\* ':', 'e' and 'i' among them, ports at both ends of u16.
Queries ==
    {[transaction_id |-> t, query |-> q] :
        t \in {<<97, 97>>, <<58, 101>>},
        q \in {[kind |-> "Ping", v |-> [id |-> id]] : id \in NodeIds20}
              \cup {[kind |-> "FindNode", v |-> [id |-> id, target |-> x]] :
                       id \in NodeIds20, x \in NodeIds20}
              \cup {[kind |-> "GetPeers", v |-> [id |-> id, info_hash |-> x]] :
                       id \in NodeIds20, x \in NodeIds20}
              \cup {[kind |-> "AnnouncePeer",
                     v |-> [id |-> id, info_hash |-> [i \in 1..20 |-> 20 + i],
                            port |-> port, token |-> token]] :
                       id \in NodeIds20, port \in {0, 1234, 65535},
                       token \in {<<120>>, <<58, 101, 105>>}}}

(***************************************************************************)
(* KRPC as a state machine: a message dict of one kind is put together     *)
(* entry by entry, as decode hands them over, and given to a parser of     *)
(* that kind.                                                              *)
(***************************************************************************)
\* The r dicts of responses: at most two entries under id, values, token
\* and nodes.
ResponseDicts ==
    {Dict(d) : d \in SeqsUpTo({<<k, ByteString(<<>>)>> :
                                  k \in {key_id, key_values, key_token, key_nodes}}, 2)}

\* The e fields of error messages: lists of up to two elements, one list of
\* three, and a string.
ErrorFields ==
    {List(l) : l \in SeqsUpTo({Integer(201), Integer(205), ByteString(<<111, 107>>),
                               ByteString(<<255>>)}, 2)}
    \cup {List(<<Integer(201), ByteString(<<111, 107>>), ByteString(<<111, 107>>)>>),
          ByteString(<<111, 107>>)}

\* The entries a message dict of the given kind is put together from.
EntriesOf(kind) ==
    IF kind = "response"
    THEN {<<key_t, x>> : x \in {ByteString(<<97, 97>>), ByteString(<<98>>), Integer(0)}}
         \cup {<<key_y, x>> : x \in {ByteString(<<114>>), ByteString(<<113>>), Integer(0)}}
         \cup {<<key_r, x>> : x \in ResponseDicts \cup {ByteString(<<>>)}}
    ELSE IF kind = "error"
    THEN {<<key_t, x>> : x \in {ByteString(<<97, 97>>), Integer(0)}}
         \cup {<<key_y, ByteString(<<101>>)>>}
         \cup {<<key_e, x>> : x \in ErrorFields}
    ELSE IF kind = "announce_peer"
    THEN {<<key_id, ByteString(x)>> : x \in {[i \in 1..20 |-> i], <<1>>}}
         \cup {<<key_info_hash, ByteString([i \in 1..20 |-> 20 + i])>>,
               <<key_token, ByteString(<<120>>)>>,
               <<key_port, ByteString(<<56, 48>>)>>}
         \cup {<<key_port, Integer(x)>> : x \in {-1, 0, 1234, 65535, 65536, 65536 + 1234}}
    ELSE {}

MessageKinds == {"response", "error", "announce_peer", "compact", "outgoing"}

InitKrpc ==
    /\ orig \in MessageKinds
    /\ work = <<>>
    /\ value = <<>>
    /\ stage = "build"
    /\ op = "new"
    /\ ret = PErr("")
    /\ bytes = <<>>
    /\ decoded = Err("")
    /\ overflow_checks = FALSE
    /\ decode_cursor = 0
    /\ decode_stack = <<>>
    /\ decode_values = <<>>
    /\ local_id = <<0, 0>>
    /\ buckets = <<>>
    /\ arg = NoNode
    /\ pre = <<>>

\* One more entry of the dict.
AddEntry(e) ==
    /\ stage = "build"
    /\ orig \notin {"compact", "outgoing"}
    /\ Len(work) < (IF orig = "announce_peer" THEN MaxEntries + 1 ELSE MaxEntries)
    /\ work' = Append(work, e)
    /\ UNCHANGED <<orig, value, stage, op, ret, bytes, decoded, overflow_checks, decVars,
                   local_id, buckets, arg, pre>>

\* ret = Response::try_guess_type_from_bencoded(&value)
GuessType ==
    /\ stage = "build"
    /\ orig = "response"
    /\ value' = Dict(work)
    /\ ret' = try_guess_type_from_bencoded(Dict(work))
    /\ op' = "try_guess_type_from_bencoded"
    /\ stage' = "returned"
    /\ UNCHANGED <<work, orig, bytes, decoded, overflow_checks, decVars, local_id, buckets, arg, pre>>

\* ret = ErrorMessage::try_from_bencoded(&value)
ParseError ==
    /\ stage = "build"
    /\ orig = "error"
    /\ value' = Dict(work)
    /\ ret' = ErrorMessage_try_from_bencoded(Dict(work))
    /\ op' = "ErrorMessage::try_from_bencoded"
    /\ stage' = "returned"
    /\ UNCHANGED <<work, orig, bytes, decoded, overflow_checks, decVars, local_id, buckets, arg, pre>>

\* ret = AnnouncePeer::try_from_arguments(&work)
ParseAnnouncePeer ==
    /\ stage = "build"
    /\ orig = "announce_peer"
    /\ value' = Dict(work)
    /\ ret' = AnnouncePeer_try_from_arguments(work)
    /\ op' = "AnnouncePeer::try_from_arguments"
    /\ stage' = "returned"
    /\ UNCHANGED <<work, orig, bytes, decoded, overflow_checks, decVars, local_id, buckets, arg, pre>>

\* bytes = x.write_compact_node_info()
WriteNodeInfo(x) ==
    /\ stage = "build"
    /\ orig = "compact"
    /\ arg' = x
    /\ bytes' = write_compact_node_info(x)
    /\ op' = "write_compact_node_info"
    /\ stage' = "written"
    /\ UNCHANGED <<work, orig, value, ret, decoded, overflow_checks, decVars, local_id, buckets, pre>>

\* bytes = p.write_compact_peer_info()
WritePeerInfo(p) ==
    /\ stage = "build"
    /\ orig = "compact"
    /\ arg' = p
    /\ bytes' = write_compact_peer_info(p)
    /\ op' = "write_compact_peer_info"
    /\ stage' = "written"
    /\ UNCHANGED <<work, orig, value, ret, decoded, overflow_checks, decVars, local_id, buckets, pre>>

\* The buffer a reader gets holds only the first k bytes written.
CutBuffer(k) ==
    /\ stage = "written"
    /\ bytes' = SubSeq(bytes, 1, k)
    /\ stage' = "cut"
    /\ UNCHANGED <<work, orig, value, op, arg, ret, decoded, overflow_checks, decVars,
                   local_id, buckets, pre>>

\* ret = BittorrentNodeInfoV4::try_read_compact_node_info(&bytes)
ReadNodeInfo ==
    /\ stage \in {"written", "cut"}
    /\ op = "write_compact_node_info"
    /\ ret' = try_read_compact_node_info(bytes)
    /\ op' = "try_read_compact_node_info"
    /\ stage' = "returned"
    /\ UNCHANGED <<work, orig, value, arg, bytes, decoded, overflow_checks, decVars,
                   local_id, buckets, pre>>

\* ret = IPv4Address::try_read_compact_peer_info(&bytes)
ReadPeerInfo ==
    /\ stage \in {"written", "cut"}
    /\ op = "write_compact_peer_info"
    /\ ret' = try_read_compact_peer_info(bytes)
    /\ op' = "try_read_compact_peer_info"
    /\ stage' = "returned"
    /\ UNCHANGED <<work, orig, value, arg, bytes, decoded, overflow_checks, decVars,
                   local_id, buckets, pre>>

\* value = r.to_bencoded()
ToBencoded(r) ==
    /\ stage = "build"
    /\ orig = "outgoing"
    /\ arg' = r
    /\ value' \in to_bencoded(r)
    /\ op' = "to_bencoded"
    /\ stage' = "bencoded"
    /\ UNCHANGED <<work, orig, ret, bytes, decoded, overflow_checks, decVars, local_id, buckets, pre>>

\* ret = Response::try_from_<kind>_bencoded(&value), the parser of the kind
\* of the response that was sent
ParseResponse ==
    /\ stage = "bencoded"
    /\ ret' = try_from_kind_bencoded(arg.response.kind, value)
    /\ op' = "try_from_kind_bencoded"
    /\ stage' = "returned"
    /\ UNCHANGED <<work, orig, value, arg, bytes, decoded, overflow_checks, decVars,
                   local_id, buckets, pre>>

\* ret = Response::try_guess_type_from_bencoded(&value), on the value a
\* response was sent as
GuessTypeSent ==
    /\ stage = "bencoded"
    /\ ret' = try_guess_type_from_bencoded(value)
    /\ op' = "try_guess_type_from_bencoded"
    /\ stage' = "returned"
    /\ UNCHANGED <<work, orig, value, arg, bytes, decoded, overflow_checks, decVars,
                   local_id, buckets, pre>>

\* bytes = bencode::encode(&q.to_bencoded()), sent off
SendQuery(q) ==
    /\ stage = "build"
    /\ orig = "outgoing"
    /\ arg' = q
    /\ value' \in Query_to_bencoded(q)
    /\ bytes' = encode(value')
    /\ op' = "encode"
    /\ stage' = "sent"
    /\ UNCHANGED <<work, orig, ret, decoded, overflow_checks, decVars, local_id, buckets, pre>>

\* decoded = bencode::decode(&bytes); ret = Query::try_from_bencoded(&value)
\* on the value decoded
ReceiveQuery ==
    /\ stage = "sent"
    /\ decoded' = decode(bytes)
    /\ ret' = IF decoded'.ok THEN Query_try_from_bencoded(decoded'.v)
              ELSE PErr(decoded'.err)
    /\ op' = "Query::try_from_bencoded"
    /\ stage' = "returned"
    /\ UNCHANGED <<work, orig, value, arg, bytes, overflow_checks, decVars,
                   local_id, buckets, pre>>

NextKrpc ==
    \/ \E e \in EntriesOf(orig) : AddEntry(e)
    \/ GuessType
    \/ ParseError
    \/ ParseAnnouncePeer
    \/ \E r \in Responses : ToBencoded(r)
    \/ ParseResponse
    \/ GuessTypeSent
    \/ \E q \in Queries : SendQuery(q)
    \/ ReceiveQuery
    \/ \E x \in NodeInfos : WriteNodeInfo(x)
    \/ \E p \in IPv4Addresses : WritePeerInfo(p)
    \/ \E k \in 0..Len(bytes) - 1 : CutBuffer(k)
    \/ ReadNodeInfo
    \/ ReadPeerInfo

SpecKrpc == InitKrpc /\ [][NextKrpc]_vars

(***************************************************************************)
(* What a table holds, read off the bucket list directly.                  *)
(***************************************************************************)
NodesOf(bs) == UNION {{bs[i][j] : j \in DOMAIN bs[i]} : i \in DOMAIN bs}
IdsOf(bs) == {n.id : n \in NodesOf(bs)}
RECURSIVE CountNodes(_, _)
CountNodes(bs, i) == IF i > Len(bs) THEN 0 ELSE Len(bs[i]) + CountNodes(bs, i + 1)
TotalNodes(bs) == CountNodes(bs, 1)
\* The bucket an insert or remove of id works on, in the table bs.
TargetBucket(bs, id) == bs[find_bucket_index(bs, id) + 1]
StrictlyAscending(nodes) ==
    \A j \in 1..Len(nodes) - 1 : CmpBytes(nodes[j].id, nodes[j + 1].id) = -1

(***************************************************************************)
(* The table's functions on any bucket list: buckets of sorted nodes, an   *)
(* empty one too, are pushed onto the list as split_bucket pushes them,    *)
(* and a function of the table is called.                                  *)
(***************************************************************************)
\* The buckets pushed: nodes strictly ascending by ID, at most bucket_size
\* and the one more that insert puts into a full bucket before it splits.
SortedBuckets ==
    {b \in SeqsUpTo({n \in Nodes : n.addresses = "addr1"}, BucketSize + 1) :
        StrictlyAscending(b)}

InitTable ==
    /\ buckets = <<>>
    /\ local_id = <<0, 0>>
    /\ op = "new"
    /\ arg = NoNode
    /\ ret = [index |-> -1, bucket |-> <<>>]
    /\ pre = <<>>
    /\ stage = "table"
    /\ work = <<>>
    /\ orig = <<>>
    /\ value = <<>>
    /\ bytes = <<>>
    /\ decoded = <<>>
    /\ overflow_checks = FALSE
    /\ decode_cursor = 0
    /\ decode_stack = <<>>
    /\ decode_values = <<>>

\* self.buckets.push(b)
PushBucket(b) ==
    /\ stage = "table"
    /\ Len(buckets) < MaxBuckets
    /\ TotalNodes(buckets) + Len(b) <= MaxHeld
    /\ buckets' = Append(buckets, b)
    /\ UNCHANGED <<local_id, op, arg, ret, pre, bcVars, overflow_checks, decVars>>

\* ret = self.find_bucket(&id), with the index find_bucket_index gave
FindBucket(id) ==
    /\ stage = "table"
    /\ op' = "find_bucket"
    /\ arg' = [id |-> id, addresses |-> "none"]
    /\ ret' = [index |-> find_bucket_index(buckets, id),
               bucket |-> IF find_bucket_index(buckets, id) = -1 THEN <<>>
                          ELSE find_bucket(buckets, id)]
    /\ stage' = "returned"
    /\ UNCHANGED <<buckets, local_id, pre, work, orig, value, bytes, decoded, overflow_checks, decVars>>

\* ret = self.buckets[i].range_contains(&id), on a bucket that is not empty
RangeContains(i, id) ==
    /\ stage = "table"
    /\ i < Len(buckets)
    /\ Len(buckets[i + 1]) > 0
    /\ op' = "range_contains"
    /\ arg' = [id |-> id, addresses |-> "none"]
    /\ ret' = [index |-> i, flag |-> range_contains(buckets[i + 1], id)]
    /\ stage' = "returned"
    /\ UNCHANGED <<buckets, local_id, pre, work, orig, value, bytes, decoded, overflow_checks, decVars>>

\* self.split_bucket(index)
SplitBucket(index) ==
    /\ stage = "table"
    /\ index < Len(buckets)
    /\ op' = "split_bucket"
    /\ pre' = buckets
    /\ ret' = [index |-> index]
    /\ buckets' = split_bucket(buckets, index, BucketSize)
    /\ stage' = "returned"
    /\ UNCHANGED <<local_id, arg, work, orig, value, bytes, decoded, overflow_checks, decVars>>

NextTable ==
    \/ \E b \in SortedBuckets : PushBucket(b)
    \/ \E index \in 0..(MaxBuckets - 1) : SplitBucket(index)
    \/ \E id \in Ids : FindBucket(id)
    \/ \E i \in 0..(MaxBuckets - 1), id \in Ids : RangeContains(i, id)

SpecTable == InitTable /\ [][NextTable]_vars

(***************************************************************************)
(* Claims about the routing table, checked under Spec.                     *)
(***************************************************************************)
\* C1: at every call boundary, after any sequence of insert and remove calls
\* from new, every bucket holds at most bucket_size nodes.
C1_BucketWithinSize == \A i \in DOMAIN buckets : Len(buckets[i]) <= BucketSize

\* C1 witness: an insert of a new ID met a full bucket and was turned down.
C1_Witness ==
    /\ op = "insert"
    /\ Len(pre) > 0
    /\ Len(TargetBucket(pre, arg.id)) = BucketSize
    /\ arg.id \notin IdsOf(pre)
    /\ ret.flag = FALSE

\* C2: when the target bucket holds bucket_size nodes and local_id lies
\* between its first and last node IDs, insert of a new ID returns true, the
\* bucket is replaced by exactly two buckets, and all bucket_size + 1 nodes
\* are in the table afterwards.
C2_FullBucketAroundLocalSplits ==
    ( /\ op = "insert"
      /\ Len(pre) > 0
      /\ Len(TargetBucket(pre, arg.id)) = BucketSize
      /\ arg.id \notin IdsOf(pre)
      /\ CmpBytes(TargetBucket(pre, arg.id)[1].id, local_id) /= 1
      /\ CmpBytes(local_id, TargetBucket(pre, arg.id)[BucketSize].id) /= 1 )
    => ( /\ ret.flag = TRUE
         /\ Len(buckets) = Len(pre) + 1
         /\ NodesOf(buckets) = NodesOf(pre) \cup {arg} )

\* C3: at every call boundary the nodes of every bucket are strictly ascending
\* by node ID (sorted, no ID twice).
C3_BucketsStrictlyAscending == \A i \in DOMAIN buckets : StrictlyAscending(buckets[i])

\* C3 witness: an insert put a node in front of a node already in the bucket.
C3_Witness ==
    /\ op = "insert"
    /\ ret.flag = TRUE
    /\ Len(buckets) = 1
    /\ Len(buckets[1]) >= 2
    /\ buckets[1][1] = arg

\* C4: insert returns true exactly when the ID was absent before the call and
\* is present after it, the node count then growing by one; when it returns
\* false the table is unchanged.
C4_InsertResult ==
    op = "insert" =>
        /\ ret.flag <=> (arg.id \notin IdsOf(pre) /\ arg.id \in IdsOf(buckets))
        /\ ret.flag => TotalNodes(buckets) = TotalNodes(pre) + 1
        /\ ~ret.flag => buckets = pre

\* C4 witness: an insert of an ID already in the table, under another address,
\* returned false.
C4_Witness ==
    /\ op = "insert"
    /\ ret.flag = FALSE
    /\ arg.id \in IdsOf(pre)
    /\ arg \notin NodesOf(pre)

\* C5: after insert(n) into a table whose target bucket exists and is not
\* full, the bucket find_bucket(n.id) returns contains n.id, and every node
\* that was in the table is still in it.
C5_InsertThenFind ==
    ( /\ op = "insert"
      /\ Len(pre) > 0
      /\ Len(TargetBucket(pre, arg.id)) < BucketSize )
    => ( /\ BucketContains(find_bucket(buckets, arg.id), arg.id)
         /\ NodesOf(pre) \subseteq NodesOf(buckets) )

\* C5 witness: a new node went into a bucket that had room, behind a node
\* already there.
C5_Witness ==
    /\ op = "insert"
    /\ Len(pre) > 0
    /\ Len(TargetBucket(pre, arg.id)) < BucketSize
    /\ arg.id \notin IdsOf(pre)
    /\ ret.flag = TRUE
    /\ buckets[1][Len(buckets[1])] = arg

\* C6: remove(id) returns the node with that ID exactly when one was in the
\* table; afterwards no node has that ID and every other node is still there;
\* when the ID was absent it returns None and changes nothing.
C6_RemoveResult ==
    op = "remove" =>
        /\ ret.flag <=> arg.id \in IdsOf(pre)
        /\ ret.flag => (ret.node \in NodesOf(pre) /\ ret.node.id = arg.id)
        /\ arg.id \notin IdsOf(buckets)
        /\ NodesOf(buckets) = {n \in NodesOf(pre) : n.id /= arg.id}
        /\ ~ret.flag => (ret.node = NoNode /\ buckets = pre)

\* C6 witness: a remove took one node out of a bucket of several.
C6_Witness ==
    /\ op = "remove"
    /\ ret.flag = TRUE
    /\ TotalNodes(pre) >= 2
    /\ TotalNodes(buckets) = TotalNodes(pre) - 1

\* C7: at every call boundary the table has no empty bucket.
C7_NoEmptyBucket == \A i \in DOMAIN buckets : Len(buckets[i]) > 0

\* C7 witness: a remove took the last node of a bucket, and the bucket with it.
C7_Witness ==
    /\ op = "remove"
    /\ ret.flag = TRUE
    /\ Len(pre) = 1
    /\ Len(pre[1]) = 1
    /\ buckets = <<>>

KeysAscending(d, strict) ==
    \A i \in 1..Len(d) - 1 : CmpBytes(d[i][1], d[i + 1][1]) \in (IF strict THEN {-1} ELSE {-1, 0})

\* Every dict of the tree v, at any depth and also inside lists, has
\* ascending keys.
RECURSIVE AscendingEverywhere(_, _)
AscendingEverywhere(v, strict) ==
    IF v.t = "Dict"
    THEN /\ KeysAscending(v.v, strict)
         /\ \A i \in 1..Len(v.v) : AscendingEverywhere(v.v[i][2], strict)
    ELSE IF v.t = "List"
    THEN \A i \in 1..Len(v.v) : AscendingEverywhere(v.v[i], strict)
    ELSE TRUE

\* A canonical value: dict keys ascending and unique at every level.
Canonical(v) == AscendingEverywhere(v, TRUE)

\* The trees that differ from v only in the order of dict keys: the entries
\* of any dict whose keys are all different may be permuted.
Perms(n) == {f \in [1..n -> 1..n] : \A i, j \in 1..n : f[i] = f[j] => i = j}
DistinctKeys(d) == \A i, j \in 1..Len(d) : d[i][1] = d[j][1] => i = j
RECURSIVE Reorderings(_), ReorderedSeqs(_)
Reorderings(v) ==
    IF v.t = "List" THEN {List(l) : l \in ReorderedSeqs(v.v)}
    ELSE IF v.t = "Dict"
    THEN LET ds == {[i \in 1..Len(v.v) |-> <<v.v[i][1], l[i]>>] :
                        l \in ReorderedSeqs([i \in 1..Len(v.v) |-> v.v[i][2]])}
         IN  IF DistinctKeys(v.v)
             THEN {Dict([i \in 1..Len(d) |-> d[f[i]]]) : d \in ds, f \in Perms(Len(v.v))}
             ELSE {Dict(d) : d \in ds}
    ELSE {v}
ReorderedSeqs(l) ==
    IF l = <<>> THEN {<<>>}
    ELSE {<<x>> \o r : x \in Reorderings(l[1]), r \in ReorderedSeqs(Tail(l))}

\* C8: for every canonical value v, decode(encode(v)) is Ok((len(encode(v)), v)).
C8_RoundTripCanonical ==
    (stage = "decoded" /\ Canonical(value)) => decoded = Ok(Len(bytes), value)

\* C8 witness: a canonical dict of two keys that holds a list was encoded and
\* decoded.
C8_Witness ==
    /\ stage = "decoded"
    /\ Canonical(value)
    /\ value.t = "Dict"
    /\ Len(value.v) = 2
    /\ \E i \in 1..2 : value.v[i][2].t = "List" /\ Len(value.v[i][2].v) > 0

\* C9: for any value v, decode(encode(v)) is Ok((len(encode(v)), sort_keys(v)));
\* in particular decoding encode(sort_keys(v)) yields exactly sort_keys(v).
C9_RoundTripIsSortKeys ==
    stage = "decoded" =>
        /\ decoded = Ok(Len(bytes), sort_keys(value))
        /\ value = sort_keys(orig) => decoded = Ok(Len(bytes), value)

\* C10: the bytes encode produces list the keys of every dict in ascending
\* order at every depth, also inside lists, and two inputs that differ only
\* in dict key order encode to the same bytes.
C10_EncodeSortsEveryDict ==
    stage = "encoded" =>
        /\ decode(bytes).ok
        /\ AscendingEverywhere(decode(bytes).v, FALSE)
        /\ \A w \in Reorderings(value) : encode(w) = bytes

\* C10 witness: a tree with an out-of-order dict inside a list was encoded.
C10_Witness ==
    /\ stage = "encoded"
    /\ value.t = "List"
    /\ \E i \in 1..Len(value.v) : value.v[i].t = "Dict" /\ ~KeysAscending(value.v[i].v, FALSE)

\* C17: sort_keys(v) puts the keys of every dict anywhere in the tree v in
\* ascending order, those of dicts that are elements of lists at any depth
\* too, and leaves list order and all non-dict values as they were.
C17_SortKeysReachesEveryDict ==
    stage = "sorted" =>
        /\ AscendingEverywhere(value, FALSE)
        /\ value = SortKeysEverywhere(orig)

(***************************************************************************)
(* Claims about the decoders on raw input, checked under SpecRaw.          *)
(***************************************************************************)
\* The length of the first complete value of input: the shortest prefix
\* that decode takes as a value, or 0 when no prefix is one.
RECURSIVE FirstValueFrom(_, _)
FirstValueFrom(input, k) ==
    IF k > Len(input) THEN 0
    ELSE IF decode(SubSeq(input, 1, k)).ok THEN k
    ELSE FirstValueFrom(input, k + 1)
FirstValueLen(input) == FirstValueFrom(input, 1)

\* C11: after a successful decode exactly one value has been produced; the
\* bytes that follow the first complete value of the input are not consumed,
\* and bytes_consumed is the length of that first value alone: an input that
\* goes on after its first value decodes to that value, with bytes_consumed
\* smaller than the input's length.
C11_TrailingBytesNotConsumed ==
    (stage = "returned" /\ op = "decode" /\ FirstValueLen(bytes) > 0) =>
        decoded = Ok(FirstValueLen(bytes), decode(SubSeq(bytes, 1, FirstValueLen(bytes))).v)

\* The elements the decoder reads off input from cursor on: every integer,
\* every string and every opening of a list or a dict is one.
RECURSIVE ElementsRead(_, _)
ElementsRead(input, cursor) ==
    IF cursor >= Len(input) THEN 0
    ELSE LET char == input[cursor + 1]
             input_ == SubSeq(input, cursor + 1, Len(input))
         IN  IF char = 105
             THEN IF decode_integer(input_).ok
                  THEN 1 + ElementsRead(input, cursor + decode_integer(input_).n)
                  ELSE 0
             ELSE IF char \in {108, 100} THEN 1 + ElementsRead(input, cursor + 1)
             ELSE IF char = 101 THEN ElementsRead(input, cursor + 1)
             ELSE IF decode_string(input_).ok
                  THEN 1 + ElementsRead(input, cursor + decode_string(input_).n)
                  ELSE 0

\* The elements a value tree holds: its nodes and the keys of its dicts.
RECURSIVE ElementsHeld(_), ElementsHeldAll(_)
ElementsHeld(v) ==
    IF v.t = "Dict"
    THEN 1 + Len(v.v) + ElementsHeldAll([i \in 1..Len(v.v) |-> v.v[i][2]])
    ELSE IF v.t = "List" THEN 1 + ElementsHeldAll(v.v)
    ELSE 1
ElementsHeldAll(l) == IF l = <<>> THEN 0 ELSE ElementsHeld(l[1]) + ElementsHeldAll(Tail(l))

\* C12: decode returns InvalidValue for every dict with a non-ByteString
\* value in a key position, or a value where a key is expected; it never
\* returns Ok with a Dict that leaves such elements out: a value decode
\* returns holds every element the input is made of.
C12_NoElementSilentlyOmitted ==
    (stage = "returned" /\ op = "decode" /\ decoded.ok) =>
        ElementsHeld(decoded.v) = ElementsRead(bytes, 0)

\* C13: whatever the input bytes, the empty input too, decode, decode_string
\* and decode_integer return Ok or an Error value; none of them panics.
C13_DecodersNeverPanic ==
    stage = "returned" => decoded.err /= "panic"

\* The number a run of decimal digits writes, leading zeros and all; -1
\* when a byte of s is no digit.
RECURSIVE DecimalValue(_, _)
DecimalValue(s, val) ==
    IF s = <<>> THEN val
    ELSE IF s[1] < 48 \/ s[1] > 57 THEN -1
    ELSE DecimalValue(Tail(s), val * 10 + (s[1] - 48))

\* C21: decode_string returns Err(InvalidString) when the input has no ':',
\* when a byte before the first ':' is no digit, or when the length written
\* there exceeds the bytes left after the ':'; otherwise it returns
\* (colon_index + 1 + length, the next length bytes).
C21_DecodeStringContract ==
    (stage = "returned" /\ op = "decode_string") =>
        LET colon_index == Position(bytes, 58)
            length == DecimalValue(SubSeq(bytes, 1, colon_index), 0)
        IN  IF colon_index = -1 \/ length = -1 \/ length > Len(bytes) - colon_index - 1
            THEN decoded = Err("InvalidString")
            ELSE decoded = Ok(colon_index + 1 + length,
                              SubSeq(bytes, colon_index + 2, colon_index + 1 + length))

\* C22: for a bucket that is not empty, range_contains(id) is true exactly
\* when id lies within the bucket's range, first.id <= id <= last.id in the
\* byte-wise order of cmp_distance, and false otherwise.  Checked under
\* SpecTable.
C22_RangeContainsIsRangeCheck ==
    (stage = "returned" /\ op = "range_contains") =>
        LET bucket == buckets[ret.index + 1]
        IN  ret.flag = ( /\ CmpBytes(bucket[1].id, arg.id) /= 1
                         /\ CmpBytes(arg.id, bucket[Len(bucket)].id) /= 1 )

\* C27: whenever decode(input) returns Ok((n, v)), n is the length of the
\* whole input: the loop reads on after the first complete value, and an
\* input that goes on after one complete top-level value is rejected with
\* an error or read to its end, never answered with a smaller n.
C27_OkConsumesWholeInput ==
    (stage = "returned" /\ op = "decode") =>
        /\ decoded.ok => decoded.n = Len(bytes)
        /\ (FirstValueLen(bytes) > 0 /\ FirstValueLen(bytes) < Len(bytes)) => ~decoded.ok

\* decode read a list of two elements or more to its end.
C27_Witness ==
    /\ stage = "returned"
    /\ op = "decode"
    /\ decoded.ok
    /\ decoded.n >= 4
    /\ decoded.v.t = "List"
    /\ Len(decoded.v.v) >= 2

(***************************************************************************)
(* Claims about decode step by step, checked under SpecDecode.             *)
(***************************************************************************)
\* C23: at every iteration boundary of decode's main loop the stack holds at
\* least one frame and at most 1 + cursor frames: the Start frame stays at
\* the bottom and is the only Start frame (so stack.pop().expect and
\* unreachable! are never reached), and the stack grows by at most one frame
\* per byte consumed.
C23_StackBoundedByCursor ==
    stage = "decoding" =>
        /\ 1 <= Len(decode_stack)
        /\ Len(decode_stack) <= 1 + decode_cursor
        /\ \A i \in 1..Len(decode_stack) : (decode_stack[i].k = "Start") <=> (i = 1)

\* The bound is met after three bytes or more, each of which left a frame.
C23_Witness ==
    /\ stage = "decoding"
    /\ decode_cursor >= 3
    /\ Len(decode_stack) = 1 + decode_cursor

\* C24: decode terminates on every finite input: every iteration of the main
\* loop either returns or moves the cursor on by at least one byte, every
\* pass of the loop run on 'e' takes at least one frame off the stack until
\* it closes a list or a dict or returns an error, and so a call of decode
\* that has been entered always returns.  Checked under SpecDecodeRun.
C24_DecodeTerminates ==
    /\ [][ /\ DecodeIteration => (decode_cursor' > decode_cursor \/ stage' = "returned")
           /\ UnwindIteration =>
                  \/ Len(decode_stack') < Len(decode_stack)
                  \/ stage' = "decoding" /\ Top(decode_stack).k \in {"ListStart", "DictStart"}
                  \/ stage' = "returned" ]_vars
    /\ (stage \in {"decoding", "unwinding"}) ~> (stage = "returned")

\* The loop run on 'e' has taken two frames off and is not done.
C24_Witness ==
    /\ stage = "unwinding"
    /\ Len(decode_values) >= 2
    /\ decode_cursor >= 4

Field(d, k) == IF FindKey(d, k) = 0 THEN Integer(0) ELSE d[FindKey(d, k)][2]
HasKey(d, k) == \E i \in 1..Len(d) : d[i][1] = k

\* C14: on a dict with y = "r", a ByteString t and a dict r,
\* try_guess_type_from_bencoded returns get_peers if r has the key values,
\* else get_peers if r has the key token, else find_node if r has the key
\* nodes, else ping; the transaction ID returned is the t field; classifying
\* the same dict again gives the same result.
C14_GuessTypeRules ==
    ( /\ stage = "returned"
      /\ op = "try_guess_type_from_bencoded"
      /\ HasKey(value.v, key_y) /\ Field(value.v, key_y) = ByteString(<<114>>)
      /\ HasKey(value.v, key_t) /\ Field(value.v, key_t).t = "ByteString"
      /\ HasKey(value.v, key_r) /\ Field(value.v, key_r).t = "Dict" )
    => LET r == Field(value.v, key_r).v
       IN  /\ ret.ok
           /\ ret.v.type = IF HasKey(r, key_values) THEN QUERY_TYPE_GET_PEERS
                           ELSE IF HasKey(r, key_token) THEN QUERY_TYPE_GET_PEERS
                           ELSE IF HasKey(r, key_nodes) THEN QUERY_TYPE_FIND_NODE
                           ELSE QUERY_TYPE_PING
           /\ ret.v.transaction_id = Field(value.v, key_t).v
           /\ try_guess_type_from_bencoded(value) = ret

\* C14 witness: a response whose r dict has nodes and then token, and no
\* values, was classified as get_peers.
C14_Witness ==
    /\ stage = "returned"
    /\ op = "try_guess_type_from_bencoded"
    /\ ret.ok
    /\ ret.v.type = QUERY_TYPE_GET_PEERS
    /\ HasKey(value.v, key_r)
    /\ Field(value.v, key_r).t = "Dict"
    /\ Len(Field(value.v, key_r).v) = 2
    /\ Field(value.v, key_r).v[1][1] = key_nodes
    /\ Field(value.v, key_r).v[2][1] = key_token

\* C20: for every IPv4 node info x and peer info p of the crawler, reading
\* back what was written gives (26, x) and (6, p); what is written is
\* exactly 26 and 6 bytes: the ID, then the address, then the port with its
\* high byte first; a buffer shorter than that yields an error.
C20_CompactInfoRoundTrip ==
    /\ (stage = "written" /\ op = "write_compact_node_info") =>
           /\ Len(bytes) = 26
           /\ SubSeq(bytes, 1, 20) = arg.node_id
           /\ SubSeq(bytes, 21, 24) = arg.address.ip
           /\ bytes[25] * 256 + bytes[26] = arg.address.port
           /\ bytes[26] < 256
    /\ (stage = "written" /\ op = "write_compact_peer_info") =>
           /\ Len(bytes) = 6
           /\ SubSeq(bytes, 1, 4) = arg.ip
           /\ bytes[5] * 256 + bytes[6] = arg.port
           /\ bytes[6] < 256
    /\ (stage = "returned" /\ op = "try_read_compact_node_info") =>
           IF Len(bytes) < 26 THEN ~ret.ok ELSE ret = POk([n |-> 26, v |-> arg])
    /\ (stage = "returned" /\ op = "try_read_compact_peer_info") =>
           IF Len(bytes) < 6 THEN ~ret.ok ELSE ret = POk([n |-> 6, v |-> arg])

\* C20 witness: a node info whose port has two different bytes was written
\* and read back.
C20_Witness ==
    /\ stage = "returned"
    /\ op = "try_read_compact_node_info"
    /\ ret.ok
    /\ arg.address.port = 1234

\* C15: to_bencoded of a GetPeers response puts the peers under the key
\* values as a List of one ByteString per peer, each a compact peer info,
\* never as one ByteString of them all, and puts the nodes under the key
\* nodes as one ByteString, the compact node infos one after the other.
C15_PeersAsListNodesAsString ==
    (stage = "bencoded" /\ op = "to_bencoded" /\ arg.response.kind = "GetPeers") =>
        LET r == Field(value.v, key_r).v
            peers == arg.response.peers
            nodes == arg.response.nodes
        IN  /\ Field(r, key_values)
                 = List([i \in 1..Len(peers) |-> ByteString(write_compact_peer_info(peers[i]))])
            /\ Field(r, key_nodes)
                 = ByteString(ConcatAll([i \in 1..Len(nodes) |->
                                            write_compact_node_info(nodes[i])]))

\* C28: for every Response r of kind Ping, FindNode or GetPeers, the parser
\* of the same kind applied to r.to_bencoded() returns Ok(r): the same
\* transaction ID, node ID, token, nodes and peers.
C28_ResponseRoundTrip ==
    (stage = "returned" /\ op = "try_from_kind_bencoded") => ret = POk(arg)

\* C30: for every response r, the method name get_query_type returns is the
\* method tag that try_guess_type_from_bencoded returns for r.to_bencoded():
\* ping for Ping, find_node for FindNode and get_peers for GetPeers.
C30_QueryTypeIsGuessedType ==
    (stage = "returned" /\ op = "try_guess_type_from_bencoded" /\ orig = "outgoing") =>
        /\ ret.ok
        /\ ret.v.type = get_query_type(arg.response)
        /\ ret.v.type = IF arg.response.kind = "Ping" THEN QUERY_TYPE_PING
                        ELSE IF arg.response.kind = "FindNode" THEN QUERY_TYPE_FIND_NODE
                        ELSE QUERY_TYPE_GET_PEERS

\* C29: for every Query q of the four kinds, sent through the outgoing path
\* and back, Query::try_from_bencoded(decode(encode(q.to_bencoded())).value)
\* returns Ok(q): transaction ID, method, node IDs, port and token are kept,
\* whatever order the two maps were iterated in.
C29_QueryRoundTrip ==
    (stage = "returned" /\ op = "Query::try_from_bencoded") =>
        /\ decoded.ok
        /\ decoded.n = Len(bytes)
        /\ ret = POk(arg)

\* An announce_peer query with the greatest port and a token of ':', 'e',
\* 'i' came back, from maps iterated in another order than they were filled.
C29_Witness ==
    /\ stage = "returned"
    /\ op = "Query::try_from_bencoded"
    /\ ret.ok
    /\ ret.v.query.kind = "AnnouncePeer"
    /\ ret.v.query.v.port = 65535
    /\ ret.v.query.v.token = <<58, 101, 105>>
    /\ value.v[1][1] = key_y
    /\ Field(value.v, key_a).v[1][1] = key_token
    /\ decoded.v /= value

(***************************************************************************)
(* Claims about the table's functions, checked under SpecTable.            *)
(***************************************************************************)
\* min(bucket_index(id, first.id), bucket_index(id, last.id)) of a bucket.
PrefixScore(bucket, id) ==
    Min(bucket_index(id, bucket[1].id), bucket_index(id, bucket[Len(bucket)].id))

\* C16: on a table with at least one non-empty bucket, find_bucket(id)
\* returns, among the non-empty buckets, the one with the greatest
\* min(bucket_index(id, first.id), bucket_index(id, last.id)); when several
\* buckets tie for that maximum, the one latest in the bucket list.
C16_FindBucketLastBest ==
    LET nonEmpty == {i \in DOMAIN buckets : Len(buckets[i]) > 0}
        best == {i \in nonEmpty :
                    \A j \in nonEmpty : PrefixScore(buckets[j], arg.id)
                                            <= PrefixScore(buckets[i], arg.id)}
    IN  (stage = "returned" /\ op = "find_bucket" /\ nonEmpty /= {}) =>
            /\ ret.index + 1 \in best
            /\ \A i \in best : i <= ret.index + 1
            /\ ret.bucket = buckets[ret.index + 1]

\* C16 witness: two non-empty buckets tied for the maximum, with an empty
\* bucket after them, and the later of the two was returned.
C16_Witness ==
    /\ stage = "returned"
    /\ op = "find_bucket"
    /\ Len(buckets) = 3
    /\ Len(buckets[1]) > 0
    /\ Len(buckets[2]) > 0
    /\ Len(buckets[3]) = 0
    /\ buckets[1] /= buckets[2]
    /\ PrefixScore(buckets[1], arg.id) = PrefixScore(buckets[2], arg.id)
    /\ PrefixScore(buckets[1], arg.id) > 0
    /\ ret.index = 1

\* An e field as an ErrorMessage needs it: a List of exactly two elements,
\* an Integer from 201 to 204 and then a ByteString.
WellFormedErrorField(e) ==
    /\ e.t = "List"
    /\ Len(e.v) = 2
    /\ e.v[1].t = "Integer"
    /\ e.v[1].v \in {201, 202, 203, 204}
    /\ e.v[2].t = "ByteString"

\* C18: ErrorMessage::try_from_bencoded returns an ErrorMessage only if t is
\* a ByteString and e is a List of exactly two elements, an Integer code from
\* 201 to 204 and then a ByteString message; an e list of any other length,
\* an element of another variant, or any other code yields an error and no
\* ErrorMessage.
C18_ErrorMessageOnlyWellFormed ==
    (stage = "returned" /\ op = "ErrorMessage::try_from_bencoded") =>
        LET d == value.v
        IN  /\ ret.ok =>
                /\ HasKey(d, key_t)
                /\ HasKey(d, key_e)
                /\ ret.v.code \in {201, 202, 203, 204}
                /\ \E i \in 1..Len(d) : d[i][1] = key_t /\ d[i][2] = ByteString(ret.v.transaction_id)
                /\ \E i \in 1..Len(d) :
                       /\ d[i][1] = key_e
                       /\ d[i][2] = List(<<Integer(ret.v.code), ByteString(ret.v.message)>>)
            /\ (\E i \in 1..Len(d) : d[i][1] = key_t /\ d[i][2].t /= "ByteString") => ~ret.ok
            /\ (\E i \in 1..Len(d) : d[i][1] = key_e /\ ~WellFormedErrorField(d[i][2])) => ~ret.ok

\* C18 witness: a dict with a ByteString t whose e list has the code 205 was
\* turned down.
C18_Witness ==
    /\ stage = "returned"
    /\ op = "ErrorMessage::try_from_bencoded"
    /\ ~ret.ok
    /\ HasKey(value.v, key_t)
    /\ Field(value.v, key_t).t = "ByteString"
    /\ HasKey(value.v, key_e)
    /\ Field(value.v, key_e) = List(<<Integer(205), ByteString(<<111, 107>>)>>)

\* An announce_peer argument the parser has nothing against.
AcceptableArgument(e) ==
    IF e[1] \in {key_id, key_info_hash} THEN e[2].t = "ByteString" /\ Len(e[2].v) = 20
    ELSE IF e[1] = key_port THEN e[2].t = "Integer" /\ e[2].v >= 0 /\ e[2].v <= 65535
    ELSE IF e[1] = key_token THEN e[2].t = "ByteString"
    ELSE TRUE

====
